---- MODULE Spec2Model ----
(***************************************************************************)
(* Wigor timetable scraper (fetch_edt_requests.py) and the two site        *)
(* builders (scripts/build_site.py, .github/workflows/scripts/             *)
(* build_site.py).                                                         *)
(*                                                                         *)
(* Text is a sequence of characters, each character a one-character        *)
(* string.  Characters outside ASCII carry a name: "e_acute", "e_grave",   *)
(* "e_circ", "a_grave", "a_circ", "i_circ", "o_circ", "u_circ", "u_grave", *)
(* "c_cedil", and for the white space "vt" (U+000B), "fs", "gs", "rs",     *)
(* "us" (U+001C to U+001F), "nel" (U+0085), "nbsp" (U+00A0), "ls"          *)
(* (U+2028), "ps" (U+2029) and "u1680", "u2000" to "u200a", "u202f",       *)
(* "u205f", "u3000".  The digits are the ASCII digits.  An optional value  *)
(* (Python's None) is the empty tuple, a present value v is a one-element  *)
(* tuple.  A float is an IEEE 754 binary64 number [neg, m, e] of value     *)
(* (-1)^neg * m * 2^e, m a natural number in limbs of 15 bits; every       *)
(* float operation rounds to nearest, ties to even, as the hardware does;  *)
(* inf, -inf and nan have the exponent 1024.  A call that may raise        *)
(* ValueError gives Returns(v) or ValueError.  Integers are those of TLC   *)
(* (32 bits).                                                              *)
(***************************************************************************)
EXTENDS Integers, Sequences, FiniteSets, TLC

VARIABLES
    pc,             \* position of the run
    args,           \* parsed command line: weeks, json, ics
    monday0,        \* iso_monday(target)
    k,              \* loop index of main
    html,           \* result of get_authenticated_html for week k
    weeks_payload,  \* list of (monday, week_map)
    console,        \* lines printed on stdout
    json_out,       \* content of the --json file, None while not written
    ics_out,        \* VEVENTs of the --ics file, None while not written
    fin,            \* argument of the function applied on its own
    fout            \* its result

vars == <<pc, args, monday0, k, html, weeks_payload, console, json_out, ics_out, fin, fout>>

None == <<>>

Some(v) == <<v>>

\* The outcome of a call that may raise: Returns(v) when it returns v, ValueError when
\* it raises ValueError.
Returns(v) == [raises |-> FALSE, value |-> v]

ValueError == [raises |-> TRUE]

(***************************************************************************)
(* Characters and text                                                     *)
(***************************************************************************)
Digits == {"0", "1", "2", "3", "4", "5", "6", "7", "8", "9"}

UpperLetters == <<"A", "B", "C", "D", "E", "F", "G", "H", "I", "J", "K", "L", "M", "N", "O", "P", "Q", "R", "S", "T", "U", "V", "W", "X", "Y", "Z">>

LowerLetters == <<"a", "b", "c", "d", "e", "f", "g", "h", "i", "j", "k", "l", "m", "n", "o", "p", "q", "r", "s", "t", "u", "v", "w", "x", "y", "z">>

AsciiUpper == {UpperLetters[i] : i \in 1..26}

AsciiLower == {LowerLetters[i] : i \in 1..26}

\* the accented letters of the character classes the source spells out
AccentedLower == {"e_acute", "e_grave", "e_circ", "a_grave", "a_circ", "i_circ",
                  "o_circ", "u_circ", "u_grave", "c_cedil"}

\* [ \t\r\f\v] of text_clean
Blanks == {" ", "\t", "\r", "\f", "vt"}

\* the characters c with c.isspace(): \s of the regular expressions (str patterns) and
\* the characters str.strip() removes
Spaces == Blanks \cup {"\n", "fs", "gs", "rs", "us", "nel", "nbsp", "u1680", "u2000", "u2001",
                       "u2002", "u2003", "u2004", "u2005", "u2006", "u2007", "u2008", "u2009",
                       "u200a", "ls", "ps", "u202f", "u205f", "u3000"}

DigitVal(c) == CHOOSE n \in 0..9 : <<"0", "1", "2", "3", "4", "5", "6", "7", "8", "9">>[n + 1] = c

DigitChar(n) == <<"0", "1", "2", "3", "4", "5", "6", "7", "8", "9">>[n + 1]

\* str.lower() on one character
LowerChar(c) == IF c \in AsciiUpper THEN LowerLetters[CHOOSE i \in 1..26 : UpperLetters[i] = c] ELSE c

\* str.lower()
lower(s) == [i \in 1..Len(s) |-> LowerChar(s[i])]

\* s[i:i+len(p)] == p
MatchAt(s, i, p) == i >= 1 /\ i + Len(p) - 1 <= Len(s) /\ SubSeq(s, i, i + Len(p) - 1) = p

\* p in s
Contains(s, p) == \E i \in 1..(Len(s) - Len(p) + 1) : MatchAt(s, i, p)

\* s.startswith(p)
StartsWith(s, p) == MatchAt(s, 1, p)

\* first index q >= p at which the run of characters of class ends (Len(s)+1 at the end)
SpanEnd(s, p, class) == CHOOSE q \in p..(Len(s) + 1) : (q = Len(s) + 1 \/ s[q] \notin class) /\ \A r \in p..(q - 1) : s[r] \in class

\* min(S) and max(S) of a non-empty set of integers
MinOf(S) == CHOOSE i \in S : \A j \in S : i <= j

MaxOf(S) == CHOOSE i \in S : \A j \in S : i >= j

\* str.strip()
strip(s) == LET Cut(keep) == IF keep = {} THEN <<>> ELSE SubSeq(s, MinOf(keep), MaxOf(keep))
            IN  Cut({i \in 1..Len(s) : s[i] \notin Spaces})

\* s.replace(a, b) for single characters a; b is a text
RECURSIVE ReplaceChar(_, _, _)
ReplaceChar(s, a, b) == IF s = <<>> THEN <<>>
                        ELSE (IF Head(s) = a THEN b ELSE <<Head(s)>>) \o ReplaceChar(Tail(s), a, b)

\* sep.join(parts)
RECURSIVE Join(_, _)
Join(parts, sep) == IF parts = <<>> THEN <<>>
                    ELSE IF Len(parts) = 1 THEN parts[1]
                    ELSE parts[1] \o sep \o Join(Tail(parts), sep)

\* re.sub(r"[ \t\r\f\v]+", " ", s)
RECURSIVE CollapseBlanks(_, _)
CollapseBlanks(s, prevBlank) == IF s = <<>> THEN <<>>
                                ELSE IF Head(s) \in Blanks
                                     THEN (IF prevBlank THEN <<>> ELSE <<" ">>) \o CollapseBlanks(Tail(s), TRUE)
                                     ELSE <<Head(s)>> \o CollapseBlanks(Tail(s), FALSE)

text_clean(s) == strip(CollapseBlanks(ReplaceChar(s, "nbsp", <<" ">>), FALSE))

\* int(digits)
RECURSIVE IntOf(_)
IntOf(ds) == IF ds = <<>> THEN 0 ELSE 10 * IntOf(SubSeq(ds, 1, Len(ds) - 1)) + DigitVal(ds[Len(ds)])

(***************************************************************************)
(* Dates: [y, m, d] of the proleptic Gregorian calendar (datetime.date)    *)
(***************************************************************************)
IsLeap(y) == (y % 4 = 0 /\ y % 100 # 0) \/ y % 400 = 0

DaysInMonth(y, m) == IF m = 2 THEN (IF IsLeap(y) THEN 29 ELSE 28)
                     ELSE IF m \in {4, 6, 9, 11} THEN 30 ELSE 31

\* dt.date(y, m, d) does not raise ValueError
ValidDate(y, m, d) == m \in 1..12 /\ d >= 1 /\ d <= DaysInMonth(y, m)

NextDay(dte) == IF dte.d < DaysInMonth(dte.y, dte.m) THEN [dte EXCEPT !.d = dte.d + 1]
                ELSE IF dte.m < 12 THEN [y |-> dte.y, m |-> dte.m + 1, d |-> 1]
                ELSE [y |-> dte.y + 1, m |-> 1, d |-> 1]

\* date + dt.timedelta(days=n), n >= 0
RECURSIVE AddDays(_, _)
AddDays(dte, n) == IF n = 0 THEN dte ELSE AddDays(NextDay(dte), n - 1)

(***************************************************************************)
(* Constants of the scraper                                                *)
(***************************************************************************)
FR_MONTHS == {<<<<"j", "a", "n", "v", "i", "e", "r">>, 1>>, <<<<"f", "e_acute", "v", "r", "i", "e", "r">>, 2>>, <<<<"f", "e", "v", "r", "i", "e", "r">>, 2>>, <<<<"m", "a", "r", "s">>, 3>>,
              <<<<"a", "v", "r", "i", "l">>, 4>>, <<<<"m", "a", "i">>, 5>>, <<<<"j", "u", "i", "n">>, 6>>, <<<<"j", "u", "i", "l", "l", "e", "t">>, 7>>,
              <<<<"a", "o", "u_circ", "t">>, 8>>, <<<<"a", "o", "u", "t">>, 8>>, <<<<"s", "e", "p", "t", "e", "m", "b", "r", "e">>, 9>>, <<<<"o", "c", "t", "o", "b", "r", "e">>, 10>>,
              <<<<"n", "o", "v", "e", "m", "b", "r", "e">>, 11>>, <<<<"d", "e_acute", "c", "e", "m", "b", "r", "e">>, 12>>, <<<<"d", "e", "c", "e", "m", "b", "r", "e">>, 12>>}

DOW_FR == <<<<"l", "u", "n", "d", "i">>, <<"m", "a", "r", "d", "i">>, <<"m", "e", "r", "c", "r", "e", "d", "i">>, <<"j", "e", "u", "d", "i">>, <<"v", "e", "n", "d", "r", "e", "d", "i">>, <<"s", "a", "m", "e", "d", "i">>, <<"d", "i", "m", "a", "n", "c", "h", "e">>>>

\* FR_MONTHS.get(name): None or the month number
MonthGet(name) == IF \E e \in FR_MONTHS : e[1] = name THEN Some((CHOOSE e \in FR_MONTHS : e[1] = name)[2]) ELSE None

(***************************************************************************)
(* Parsing of the timetable page                                           *)
(***************************************************************************)
\* Natural numbers of any size are sequences of limbs below LimbBase, the least
\* significant first, without a zero limb at the top; <<>> is 0.
LimbBase == 32768

\* a * n + c for n in 1..LimbBase and c in 0..LimbBase-1
BigMulAdd(a, n, c) ==
    LET RECURSIVE Limbs(_, _, _)
        Glue(low, up) == [limbs |-> low.limbs \o up.limbs, carry |-> up.carry]
        Upper(low, lo, hi) == Glue(low, Limbs(lo, hi, low.carry))
        Limbs(lo, hi, carry) ==
            IF lo = hi THEN [limbs |-> <<(a[lo] * n + carry) % LimbBase>>, carry |-> (a[lo] * n + carry) \div LimbBase]
            ELSE Upper(Limbs(lo, (lo + hi) \div 2, carry), (lo + hi) \div 2 + 1, hi)
        Top(r) == IF r.carry = 0 THEN r.limbs ELSE Append(r.limbs, r.carry)
    IN  IF a = <<>> THEN (IF c = 0 THEN <<>> ELSE <<c>>) ELSE Top(Limbs(1, Len(a), c))

\* [q, r] with a = q * n + r and r < n, for n in 1..LimbBase
BigDiv(a, n) ==
    LET RECURSIVE Limbs(_, _, _)
        Glue(up, low) == [q |-> up.q \o low.q, r |-> low.r]
        Lower(up, lo, hi) == Glue(up, Limbs(lo, hi, up.r))
        \* the limbs hi..lo of the quotient, in this order, for the limbs hi..lo of a
        \* after the remainder r of the limbs above
        Limbs(lo, hi, r) ==
            IF lo = hi THEN [q |-> <<(r * LimbBase + a[lo]) \div n>>, r |-> (r * LimbBase + a[lo]) % n]
            ELSE Lower(Limbs((lo + hi) \div 2 + 1, hi, r), lo, (lo + hi) \div 2)
        Top(d, len) == [q |-> [i \in 1..(IF d.q[1] = 0 THEN len - 1 ELSE len) |-> d.q[len + 1 - i]], r |-> d.r]
    IN  IF a = <<>> THEN [q |-> <<>>, r |-> 0] ELSE Top(Limbs(1, Len(a), 0), Len(a))

\* -1, 0 or 1 as a < b, a = b or a > b
BigCmp(a, b) ==
    LET At(differ) == IF differ = {} THEN 0
                      ELSE IF a[MaxOf(differ)] < b[MaxOf(differ)] THEN -1 ELSE 1
    IN  IF Len(a) < Len(b) THEN -1
        ELSE IF Len(a) > Len(b) THEN 1
        ELSE At({i \in 1..Len(a) : a[i] # b[i]})

\* a + b + carry for carry in 0..1
BigAdd(a, b, carry) ==
    LET Limb(x, i) == IF i <= Len(x) THEN x[i] ELSE 0
        RECURSIVE Limbs(_, _, _)
        Glue(low, up) == [limbs |-> low.limbs \o up.limbs, carry |-> up.carry]
        Upper(low, lo, hi) == Glue(low, Limbs(lo, hi, low.carry))
        Limbs(lo, hi, c) ==
            IF lo = hi THEN [limbs |-> <<(Limb(a, lo) + Limb(b, lo) + c) % LimbBase>>,
                             carry |-> (Limb(a, lo) + Limb(b, lo) + c) \div LimbBase]
            ELSE Upper(Limbs(lo, (lo + hi) \div 2, c), (lo + hi) \div 2 + 1, hi)
        Top(r) == IF r.carry = 0 THEN r.limbs ELSE Append(r.limbs, r.carry)
        Sum(n) == IF n = 0 THEN (IF carry = 0 THEN <<>> ELSE <<carry>>) ELSE Top(Limbs(1, n, carry))
    IN  Sum(IF Len(a) >= Len(b) THEN Len(a) ELSE Len(b))

\* |a - b|
BigSub(a, b) ==
    LET Limb(x, i) == IF i <= Len(x) THEN x[i] ELSE 0
        RECURSIVE Limbs(_, _, _, _, _)
        Glue(low, up) == [limbs |-> low.limbs \o up.limbs, borrow |-> up.borrow]
        Upper(x, y, low, lo, hi) == Glue(low, Limbs(x, y, lo, hi, low.borrow))
        One(d) == IF d < 0 THEN [limbs |-> <<d + LimbBase>>, borrow |-> 1] ELSE [limbs |-> <<d>>, borrow |-> 0]
        Limbs(x, y, lo, hi, borrow) ==
            IF lo = hi THEN One(x[lo] - Limb(y, lo) - borrow)
            ELSE Upper(x, y, Limbs(x, y, lo, (lo + hi) \div 2, borrow), (lo + hi) \div 2 + 1, hi)
        Cut(d, set) == IF set = {} THEN <<>> ELSE SubSeq(d, 1, MaxOf(set))
        Top(d) == Cut(d, {i \in 1..Len(d) : d[i] # 0})
        Ordered(c) == IF c = 0 THEN <<>>
                      ELSE IF c > 0 THEN Top(Limbs(a, b, 1, Len(a), 0).limbs)
                      ELSE Top(Limbs(b, a, 1, Len(b), 0).limbs)
    IN  Ordered(BigCmp(a, b))

\* the number of bits of a: 0 for 0, else 1 + floor(log2(a))
BigBitLen(a) ==
    LET RECURSIVE Bits(_)
        Bits(n) == IF n = 0 THEN 0 ELSE 1 + Bits(n \div 2)
    IN  IF a = <<>> THEN 0 ELSE 15 * (Len(a) - 1) + Bits(a[Len(a)])

\* 2^n for n in 0..15
RECURSIVE Pow2(_)
Pow2(n) == IF n = 0 THEN 1 ELSE 2 * Pow2(n - 1)

\* a * 2^n
BigShl(a, n) == IF a = <<>> \/ n = 0 THEN a ELSE [i \in 1..(n \div 15) |-> 0] \o BigMulAdd(a, Pow2(n % 15), 0)

\* [q, sticky]: q = floor(a / 2^n), sticky when a bit that is dropped is set
BigShr(a, n) ==
    LET Limbs(d, w) == [q |-> d.q, sticky |-> d.r # 0 \/ \E i \in 1..w : a[i] # 0]
    IN  IF n \div 15 >= Len(a) THEN [q |-> <<>>, sticky |-> a # <<>>]
        ELSE Limbs(BigDiv(SubSeq(a, n \div 15 + 1, Len(a)), Pow2(n % 15)), n \div 15)

\* A float is [neg, m, e]: a finite one has the value (-1)^neg * m * 2^e with m odd and
\* e below 1024, or is a zero, with m = 0 and e = 0.  The exponent 1024, which no
\* finite float has, marks the other two: inf and -inf have m = 1, nan has m = 0.
FloatInf(neg) == [neg |-> neg, m |-> <<1>>, e |-> 1024]

FloatNaN == [neg |-> FALSE, m |-> <<>>, e |-> 1024]

\* x is neither inf, -inf nor nan
FloatIsFinite(x) == x.e < 1024

\* math.isnan(x)
FloatIsNaN(x) == x.e = 1024 /\ x.m = <<>>

\* the finite float (-1)^neg * m * 2^e, in the form whose m is odd, or 0 with e = 0
FloatCanon(neg, m, e) ==
    LET Bits(t) == CHOOSE b \in 0..14 : t % Pow2(b) = 0 /\ (t \div Pow2(b)) % 2 = 1
        Odd(z, b) == [neg |-> neg, m |-> BigDiv(SubSeq(m, z + 1, Len(m)), Pow2(b)).q, e |-> e + 15 * z + b]
        Low(z) == Odd(z, Bits(m[z + 1]))
        Set(limbs) == IF limbs = {} THEN [neg |-> neg, m |-> <<>>, e |-> 0] ELSE Low(MinOf(limbs) - 1)
    IN  Set({i \in 1..Len(m) : m[i] # 0})

\* The binary64 number nearest to (-1)^neg * (q + s) * 2^e, ties to even, where s is 0,
\* or lies strictly between 0 and 1 when sticky (q has then 55 bits or more): 53 bits
\* of precision, no bit below 2^-1074, and inf or -inf from 2^1024 on.
FloatRound(neg, q, sticky, e) ==
    LET Max3(x, y, z) == IF x >= y /\ x >= z THEN x ELSE IF y >= z THEN y ELSE z
        Odd(x) == x # <<>> /\ Head(x) % 2 = 1
        Even(kept, half, st) == IF half /\ (st \/ Odd(kept)) THEN BigAdd(kept, <<>>, 1) ELSE kept
        Half(s1) == Even(BigDiv(s1.q, 2).q, Odd(s1.q), s1.sticky \/ sticky)
        Finite(f) == IF BigBitLen(f.m) + f.e > 1024 THEN FloatInf(neg) ELSE f
        dropped == Max3(BigBitLen(q) - 53, (-1074) - e, 0)
    IN  IF q = <<>> THEN [neg |-> neg, m |-> <<>>, e |-> 0]
        ELSE Finite(FloatCanon(neg, IF dropped = 0 THEN q ELSE Half(BigShr(q, dropped - 1)), e + dropped))

\* [-\d.] of the pattern of parse_pct_left
NumChars == Digits \cup {"-", "."}

\* the float nearest to (-1)^neg * n / 10^d: the quotient of n * 2^s by 10^d has 55
\* bits or more, so that one rounding gives it
FloatRatio(neg, n, d) ==
    LET RECURSIVE DivPow10(_, _, _)
        One(x, sticky) == [q |-> x.q, sticky |-> sticky \/ x.r # 0]
        Then(first, c) == DivPow10(first.q, c, first.sticky)
        \* [q, sticky]: floor(a / 10^c), sticky when a remainder was dropped
        DivPow10(a, c, sticky) ==
            IF c = 0 \/ a = <<>> THEN [q |-> a, sticky |-> sticky]
            ELSE IF c <= 4 THEN One(BigDiv(a, <<10, 100, 1000, 10000>>[c]), sticky)
            ELSE Then(DivPow10(a, 4 * ((c + 4) \div 8), sticky), c - 4 * ((c + 4) \div 8))
        Shift(bits) == IF d > 0 /\ 55 + 4 * d > bits THEN 55 + 4 * d - bits ELSE 0
        shift == Shift(BigBitLen(n))
        quotient == DivPow10(BigShl(n, shift), d, FALSE)
    IN  FloatRound(neg, quotient.q, quotient.sticky, -shift)

\* float(g) for g made of NumChars: None where it raises ValueError.  The literal
\* n / 10^d is converted with one rounding, as float() does; a literal of 2^1024 or
\* more, after rounding, gives inf.
FloatOf(g) ==
    LET NoZeros(frac, set) == IF set = {} THEN <<>> ELSE SubSeq(frac, 1, MaxOf(set))
        RECURSIVE OfDigits(_, _, _, _)
        \* acc followed by the digits lo..hi of ds
        OfDigits(acc, ds, lo, hi) ==
            IF acc = <<>> /\ hi < lo THEN <<>>
            ELSE IF hi - lo < 4 THEN BigMulAdd(acc, <<1, 10, 100, 1000, 10000>>[hi - lo + 2], IntOf(SubSeq(ds, lo, hi)))
            ELSE OfDigits(OfDigits(acc, ds, lo, (lo + hi) \div 2), ds, (lo + hi) \div 2 + 1, hi)
        \* a whole part of 310 digits or more, leading zeros apart, is 10^309 at least
        Number(neg, whole, frac) ==
            IF \E i \in 1..(Len(whole) - 309) : whole[i] # "0" THEN FloatInf(neg)
            ELSE FloatRatio(neg, OfDigits(<<>>, whole \o frac, 1, Len(whole) + Len(frac)), Len(frac))
        Parts(neg, body, dot) == Number(neg, SubSeq(body, 1, dot - 1),
                                        NoZeros(SubSeq(body, dot + 1, Len(body)), {i \in 1..(Len(body) - dot) : body[dot + i] # "0"}))
        Valid(neg, body) ==
            IF /\ \A i \in 1..Len(body) : body[i] \in Digits \cup {"."}
               /\ Cardinality({i \in 1..Len(body) : body[i] = "."}) <= 1
               /\ \E i \in 1..Len(body) : body[i] \in Digits
            THEN Some(Parts(neg, body, SpanEnd(body, 1, Digits)))
            ELSE None
    IN  IF g # <<>> /\ Head(g) = "-" THEN Valid(TRUE, Tail(g)) ELSE Valid(FALSE, g)

\* abs(a - b) for a and b that are not negative: one float subtraction (nan when a or
\* b is nan, or both are inf), then abs()
FloatSubAbs(a, b) ==
    LET Align(e) == FloatRound(FALSE, BigSub(BigShl(a.m, a.e - e), BigShl(b.m, b.e - e)), FALSE, e)
    IN  IF FloatIsNaN(a) \/ FloatIsNaN(b) THEN FloatNaN
        ELSE IF ~ FloatIsFinite(a) \/ ~ FloatIsFinite(b)
             THEN (IF ~ FloatIsFinite(a) /\ ~ FloatIsFinite(b) THEN FloatNaN ELSE FloatInf(FALSE))
        ELSE IF a = b THEN [neg |-> FALSE, m |-> <<>>, e |-> 0]
        ELSE Align(IF a.e <= b.e THEN a.e ELSE b.e)

\* a < b: FALSE when a or b is nan; -0.0 and 0.0 are equal; inf is compared as 2^1024
FloatLt(a, b) ==
    LET Cmp(e) == BigCmp(BigShl(a.m, a.e - e), BigShl(b.m, b.e - e))
        Less(c) == IF a.m = <<>> /\ b.m = <<>> THEN FALSE
                   ELSE IF a.neg # b.neg THEN a.neg
                   ELSE IF a.neg THEN c > 0 ELSE c < 0
    IN  IF FloatIsNaN(a) \/ FloatIsNaN(b) THEN FALSE
        ELSE Less(Cmp(IF a.e <= b.e THEN a.e ELSE b.e))

\* re.search(r"left\s*:\s*([-\d.]+)\s*%", style, flags=re.I), then float(m.group(1))
parse_pct_left(style) ==
    LET Percent(a, e, q) == IF e > a /\ q <= Len(style) /\ style[q] = "%" THEN Some(SubSeq(style, a, e - 1)) ELSE None
        Number(a) == Percent(a, SpanEnd(style, a, NumChars), SpanEnd(style, SpanEnd(style, a, NumChars), Spaces))
        Colon(c) == IF c <= Len(style) /\ style[c] = ":" THEN Number(SpanEnd(style, c + 1, Spaces)) ELSE None
        At(low, i) == IF MatchAt(low, i, <<"l", "e", "f", "t">>) THEN Colon(SpanEnd(style, i + 4, Spaces)) ELSE None
        First(low, hits) == IF hits = {} THEN None ELSE At(low, MinOf(hits))
        Lowered(low) == First(low, {i \in 1..Len(style) : At(low, i) # None})
        m == Lowered(lower(style))
    IN  IF m = None THEN None ELSE FloatOf(m[1])

\* the .replace chain that strips the accents of a month name
StripAccent(c) == IF c \in {"e_acute", "e_grave", "e_circ"} THEN "e"
                  ELSE IF c \in {"a_grave", "a_circ"} THEN "a"
                  ELSE IF c = "i_circ" THEN "i"
                  ELSE IF c = "o_circ" THEN "o"
                  ELSE IF c \in {"u_circ", "u_grave"} THEN "u"
                  ELSE IF c = "c_cedil" THEN "c"
                  ELSE c

\* the match of (lundi|...|dimanche)\s+(\d{1,2})\s+([a-z...]+) that starts at i:
\* None, or Some([day, mon]) with the groups 2 and 3
DayHeaderMatchAt(lab, i) ==
    LET Groups(p1, p2, p3, p4, p5) ==
            IF p2 > p1 /\ p3 - p2 \in {1, 2} /\ p4 > p3 /\ p5 > p4
            THEN Some([day |-> SubSeq(lab, p2, p3 - 1), mon |-> SubSeq(lab, p4, p5 - 1)])
            ELSE None
        Letters(p1, p2, p3, p4) == Groups(p1, p2, p3, p4, SpanEnd(lab, p4, AsciiLower \cup AsciiUpper \cup AccentedLower))
        Gap(p1, p2, p3) == Letters(p1, p2, p3, SpanEnd(lab, p3, Spaces))
        Number(p1, p2) == Gap(p1, p2, SpanEnd(lab, p2, Digits))
        Weekday(p1) == Number(p1, SpanEnd(lab, p1, Spaces))
    IN  IF ~ \E w \in 1..7 : MatchAt(lab, i, DOW_FR[w]) THEN None
        ELSE Weekday(i + Len(DOW_FR[CHOOSE w \in 1..7 : MatchAt(lab, i, DOW_FR[w])]))

\* None or Some(<<month, day>>): the date of year 1900 the source builds, as (month, day)
parse_day_header_date(label) ==
    LET Date(day, month) ==
            IF month = None THEN None
            ELSE IF ValidDate(1900, month[1], day) THEN Some(<<month[1], day>>)
            ELSE None
        Groups(m) == Date(IntOf(m.day), MonthGet([i \in 1..Len(m.mon) |-> StripAccent(m.mon[i])]))
        Search(lab, hits) == IF hits = {} THEN None ELSE Groups(DayHeaderMatchAt(lab, MinOf(hits))[1])
        Lowered(lab) == Search(lab, {i \in 1..Len(lab) : DayHeaderMatchAt(lab, i) # None})
    IN  Lowered(lower(text_clean(label)))

\* int(left // 100.0).  For an infinite left the floor division gives nan and int(nan)
\* raises ValueError.  For a finite left it returns floor(left / 100), which the two
\* float operations of the floor division give without rounding for every left whose
\* panel index is an integer of TLC.
PanelOf(left) ==
    LET RECURSIVE ToInt(_)
        ToInt(a) == IF a = <<>> THEN 0 ELSE Head(a) + LimbBase * ToInt(Tail(a))
        Signed(q, rem) == IF ~ left.neg THEN q ELSE IF rem THEN -(q + 1) ELSE -q
        Hundreds(d, frac) == Signed(ToInt(d.q), d.r # 0 \/ frac)
        Whole(w) == Hundreds(BigDiv(w.q, 100), w.sticky)
    IN  IF ~ FloatIsFinite(left) THEN ValueError
        ELSE Returns(Whole(IF left.e >= 0 THEN [q |-> BigShl(left.m, left.e), sticky |-> FALSE] ELSE BigShr(left.m, -left.e)))

\* fmod(|left|, 100.0), which is exact, for left = m * 2^e: its part below 1 is kept
\* and its whole part is taken modulo 100
FloatFmod(m, e) ==
    LET whole == IF e >= 0 THEN BigShl(m, e) ELSE BigShr(m, -e).q
        below == IF e >= 0 THEN <<>> ELSE BigSub(m, BigShl(whole, -e))
        Sum(hundreds, bits) == FloatCanon(FALSE, BigAdd(BigShl(BigMulAdd(<<>>, 1, hundreds.r), bits), below, 0), -bits)
    IN  Sum(BigDiv(whole, 100), IF e >= 0 THEN 0 ELSE -e)

\* the sign step of the float %: a negative left with a remainder r gets 100.0 - r, one
\* float operation
FloatModSign(neg, r) == IF r.m = <<>> \/ ~ neg THEN r
                        ELSE FloatSubAbs([neg |-> FALSE, m |-> <<25>>, e |-> 2], r)

\* left % 100.0: nan for an infinite left
LeftMod(left) ==
    IF ~ FloatIsFinite(left) THEN FloatNaN
    ELSE IF left.m = <<>> THEN [neg |-> FALSE, m |-> <<>>, e |-> 0]
    ELSE FloatModSign(left.neg, FloatFmod(left.m, left.e))

\* A Jour block is [style, text]: its style attribute and the text of its TCJour cell
\* (get_text(" ", strip=True)).  The Jour blocks that have a left, in document order,
\* each with the outcome of int(left // 100.0) on it.
JourPanels(jours) ==
    LET Panels(with) == [i \in 1..Len(with) |-> [left |-> with[i].left[1], text |-> with[i].text,
                                                 panel |-> PanelOf(with[i].left[1])]]
        WithLeft(all) == Panels(SelectSeq(all, LAMBDA j : j.left # None))
    IN  WithLeft([i \in 1..Len(jours) |-> [left |-> parse_pct_left(jours[i].style), text |-> jours[i].text]])

\* The loop that fills panels: the panel index of a Jour block is taken before its date
\* is parsed, so a left that is not finite raises ValueError whatever the text is.
\* Otherwise the entries of panels in document order, md being (month, day).
JourItems(jours) ==
    LET Dated(all) == SelectSeq(all, LAMBDA it : it.md # None)
        Entries(with) == Dated([i \in 1..Len(with) |-> [left |-> with[i].left, text |-> with[i].text,
                                                        panel |-> with[i].panel.value,
                                                        md |-> parse_day_header_date(with[i].text)]])
        Loop(with) == IF \E i \in 1..Len(with) : with[i].panel.raises THEN ValueError
                      ELSE Returns(Entries(with))
    IN  Loop(JourPanels(jours))

\* the keys of the dict panels in insertion order
RECURSIVE PanelKeys(_, _)
PanelKeys(items, seen) ==
    LET Key(p) == IF p \in seen THEN PanelKeys(Tail(items), seen)
                  ELSE <<p>> \o PanelKeys(Tail(items), seen \cup {p})
    IN  IF items = <<>> THEN <<>>
        ELSE Key(Head(items).panel)

\* {(monday + i).month, (monday + i).day) : i in range(7)}
TargetDaysMd(target_monday) == {<<AddDays(target_monday, i).m, AddDays(target_monday, i).d>> : i \in 0..6}

\* len(md_in_panel & target_days_md) for panel p
PanelScore(items, p, target_monday) ==
    LET md_in_panel == {items[i].md[1] : i \in {n \in 1..Len(items) : items[n].panel = p}}
    IN  Cardinality(md_in_panel \cap TargetDaysMd(target_monday))

\* Variant of the loop below with >= in place of >: among panels of equal score the
\* last one wins.  The selection property C4 must reject it.
RECURSIVE BestPanelLoopTiesLast(_, _, _, _, _)
BestPanelLoopTiesLast(keys, items, target_monday, best_panel, best_score) ==
    LET Step(score) ==
            IF score >= best_score
            THEN BestPanelLoopTiesLast(Tail(keys), items, target_monday, Some(Head(keys)), score)
            ELSE BestPanelLoopTiesLast(Tail(keys), items, target_monday, best_panel, best_score)
    IN  IF keys = <<>> THEN best_panel
        ELSE Step(PanelScore(items, Head(keys), target_monday))

\* the loop over panels.items(): best is None or Some(panel)
RECURSIVE BestPanelLoop(_, _, _, _, _)
BestPanelLoop(keys, items, target_monday, best_panel, best_score) ==
    LET Step(score) ==
            IF score > best_score
            THEN BestPanelLoop(Tail(keys), items, target_monday, Some(Head(keys)), score)
            ELSE BestPanelLoop(Tail(keys), items, target_monday, best_panel, best_score)
    IN  IF keys = <<>> THEN best_panel
        ELSE Step(PanelScore(items, Head(keys), target_monday))

\* Variant of the selection below with best_score starting at 0: a panel none of
\* whose headers falls in the target week is never selected.  The property C3 must reject it.
week_panel_index_from_zero(jours, target_monday) ==
    LET Pick(items) == IF items = <<>> THEN None
                       ELSE BestPanelLoop(PanelKeys(items, {}), items, target_monday, None, 0)
        Loop(panels) == IF panels.raises THEN ValueError ELSE Returns(Pick(panels.value))
    IN  Loop(JourItems(jours))

\* Returns(None), Returns(Some(panel)), or ValueError when the loop over the Jour blocks
\* raises
week_panel_index_for_target(jours, target_monday) ==
    LET Pick(items) == IF items = <<>> THEN None
                       ELSE BestPanelLoop(PanelKeys(items, {}), items, target_monday, None, -1)
        Loop(panels) == IF panels.raises THEN ValueError ELSE Returns(Pick(panels.value))
    IN  Loop(JourItems(jours))

\* sorted(seq, key=...): keys[i] is the key of seq[i]; stable, ascending
StableSort(seq, keys) ==
    LET n       == Len(seq)
        rank(i) == Cardinality({j \in 1..n : keys[j] < keys[i] \/ (keys[j] = keys[i] /\ j < i)}) + 1
    IN  [r \in 1..n |-> seq[CHOOSE i \in 1..n : rank(i) = r]]

\* list of (left, label) of the panel, sorted by left; ValueError when a Jour block has
\* a left that is not finite
day_headers_for_panel(jours, panel_index) ==
    LET Sorted(res) == StableSort(res, [i \in 1..Len(res) |-> Cardinality({j \in 1..Len(res) : FloatLt(res[j].left, res[i].left)})])
        Pairs(kept) == Sorted([i \in 1..Len(kept) |-> [left |-> kept[i].left, label |-> text_clean(kept[i].text)]])
        Loop(with) == IF \E i \in 1..Len(with) : with[i].panel.raises THEN ValueError
                      ELSE Returns(Pairs(SelectSeq(with, LAMBDA j : j.panel.value = panel_index)))
    IN  Loop(JourPanels(jours))

\* A Case block is [id, style, texts]: its id attribute, its style attribute and its
\* text nodes, each stripped and non-empty (what get_text(sep, strip=True) joins).
\* The cases of the panel in document order; ValueError when a Case block that is not
\* avant or apres has a left that is not finite.
extract_cases_for_panel(all_cases, panel_index) ==
    LET WithLeft(all) == SelectSeq(all, LAMBDA c : c.left # None)
        Lefts(shown) == WithLeft([i \in 1..Len(shown) |-> [case |-> shown[i], left |-> parse_pct_left(shown[i].style)]])
        Panels(shown) == [i \in 1..Len(shown) |-> [case |-> shown[i].case, panel |-> PanelOf(shown[i].left[1])]]
        Cases(kept) == [i \in 1..Len(kept) |-> kept[i].case]
        Loop(all) == IF \E i \in 1..Len(all) : all[i].panel.raises THEN ValueError
                     ELSE Returns(Cases(SelectSeq(all, LAMBDA c : c.panel = Returns(panel_index))))
    IN  Loop(Panels(Lefts(SelectSeq(all_cases, LAMBDA c : lower(c.id) \notin {<<"a", "v", "a", "n", "t">>, <<"a", "p", "r", "e", "s">>}))))

NoTime == 99999

\* s without the final newline that $ lets pass
BeforeFinalNewline(s) == IF s # <<>> /\ s[Len(s)] = "\n" THEN SubSeq(s, 1, Len(s) - 1) ELSE s

\* ^(\d{1,2}):(\d{2})$ matches s: $ also matches before a final newline
StrictTimeMatch(s) ==
    LET Shape(t) == /\ Len(t) \in {4, 5}
                    /\ t[Len(t) - 2] = ":"
                    /\ \A i \in 1..Len(t) : i # Len(t) - 2 => t[i] \in Digits
    IN  Shape(BeforeFinalNewline(s))

_time_to_minutes(s) ==
    LET Minutes(t) == IntOf(SubSeq(t, 1, Len(t) - 3)) * 60 + IntOf(SubSeq(t, Len(t) - 1, Len(t)))
        Match(r) == IF ~ StrictTimeMatch(r) THEN NoTime ELSE Minutes(BeforeFinalNewline(r))
    IN  IF s = <<>> THEN NoTime ELSE Match(ReplaceChar(s, "h", <<":">>))

\* \d{1,2}[:h]\d{2} at i (re.I: H too): 0, or the index after the match
ClockEnd(s, i) ==
    LET at(j) == IF j <= Len(s) THEN s[j] ELSE ""
        Rest(hl) == IF hl > 0 /\ at(i + hl + 1) \in Digits /\ at(i + hl + 2) \in Digits THEN i + hl + 3 ELSE 0
    IN  Rest(IF at(i) \in Digits /\ at(i + 1) \in {":", "h", "H"} THEN 1
             ELSE IF at(i) \in Digits /\ at(i + 1) \in Digits /\ at(i + 2) \in {":", "h", "H"} THEN 2
             ELSE 0)

\* (\d{1,2}[:h]\d{2})\s*-\s*(\d{1,2}[:h]\d{2}) at i: None or Some([g1, g2])
TimePatAt(s, i) ==
    LET Groups(e1, b2, e2) == IF e2 = 0 THEN None
                              ELSE Some([g1 |-> SubSeq(s, i, e1 - 1), g2 |-> SubSeq(s, b2, e2 - 1)])
        Second(e1, b2) == Groups(e1, b2, IF b2 = 0 THEN 0 ELSE ClockEnd(s, b2))
        Dash(e1, d) == Second(e1, IF d <= Len(s) /\ s[d] = "-" THEN SpanEnd(s, d + 1, Spaces) ELSE 0)
        First(e1) == IF e1 = 0 THEN None ELSE Dash(e1, SpanEnd(s, e1, Spaces))
    IN  First(ClockEnd(s, i))

\* re.search(time_pat, s, flags=re.I): None or the groups of the leftmost match
TimePatSearch(s) ==
    LET Leftmost(hits) == IF hits = {} THEN None ELSE TimePatAt(s, MinOf(hits))
    IN  Leftmost({i \in 1..Len(s) : TimePatAt(s, i) # None})

\* txt.splitlines() stripped, empty lines dropped
RECURSIVE SplitLines(_, _)
SplitLines(s, cur) ==
    LET Flush(l) == IF l = <<>> THEN <<>> ELSE <<l>>
    IN  IF s = <<>> THEN Flush(strip(cur))
        ELSE IF Head(s) \in {"\n", "\r", "vt", "\f", "fs", "gs", "rs", "nel", "ls", "ps"} THEN Flush(strip(cur)) \o SplitLines(Tail(s), <<>>)
        ELSE SplitLines(Tail(s), Append(cur, Head(s)))

\* [A-Za-z0-9_\- ] of the room name
RoomChars == AsciiLower \cup AsciiUpper \cup Digits \cup {"_", "-", " "}

\* (?:\(([^)]+)\))?$ on the text from the first "(" on
SalleParenOk(paren) ==
    \/ paren = <<>>
    \/ /\ Len(paren) >= 3
       /\ paren[Len(paren)] = ")"
       /\ \A i \in 2..(Len(paren) - 1) : paren[i] # ")"

\* \s*:?\s*([A-Za-z0-9_\- ]+) on the text between "salle" and the first "(":
\* None or Some(group 1)
SalleRoom(body) ==
    LET Group(tail, wsrun) ==
            IF tail # <<>>
            THEN (IF \A i \in 1..Len(tail) : tail[i] \in RoomChars THEN Some(tail) ELSE None)
            ELSE (IF wsrun # <<>> /\ wsrun[Len(wsrun)] = " " THEN Some(tail) ELSE None)
        AfterColon(colon, b) == Group(SubSeq(body, SpanEnd(body, b, Spaces), Len(body)),
                                      IF colon THEN SubSeq(body, b, Len(body)) ELSE body)
        Colon(a, colon) == AfterColon(colon, IF colon THEN a + 1 ELSE a)
        Lead(a) == Colon(a, a <= Len(body) /\ body[a] = ":")
    IN  Lead(SpanEnd(body, 1, Spaces))

\* ^salle\s*:?\s*([A-Za-z0-9_\- ]+)(?:\(([^)]+)\))?$ on one line, re.I:
\* None or Some([room, site]) with the groups stripped
SalleMatch(l) ==
    LET Result(g1, paren) ==
            IF g1 # None /\ SalleParenOk(paren)
            THEN Some([room |-> strip(g1[1]), site |-> strip(SubSeq(paren, 2, Len(paren) - 1))])
            ELSE None
        Parts(rest, po) == Result(SalleRoom(SubSeq(rest, 1, po - 1)), SubSeq(rest, po, Len(rest)))
        Open(rest, opens) == Parts(rest, IF opens = {} THEN Len(rest) + 1 ELSE MinOf(opens))
        Rest(rest) == Open(rest, {i \in 1..Len(rest) : rest[i] = "("})
    IN  IF ~ StartsWith(lower(l), <<"s", "a", "l", "l", "e">>) THEN None
        ELSE Rest(SubSeq(l, 6, Len(l)))

ReservedPrefixes == {<<"s", "a", "l", "l", "e">>, <<"s", "i", "t", "e">>, <<"s", "o", "c", "l", "e", " ">>, <<"p", "r", "o", "m", "o", "t", "i", "o", "n", " ">>, <<"g", "r", "o", "u", "p", "e", " ">>}

\* the lines pick_title and the teacher scan pass over
IsSkipped(s) == TimePatSearch(lower(s)) # None \/ \E p \in ReservedPrefixes : StartsWith(lower(s), p)

\* the letters (ASCII and Latin-1), apostrophe, space and hyphen of the teacher name
NameChars == AsciiLower \cup AsciiUpper \cup AccentedLower \cup {"'", " ", "-"}

\* ^[...]{3,}$
NameMatch(s) == Len(s) >= 3 /\ \A i \in 1..Len(s) : s[i] \in NameChars

FirstOr(seq, dflt) == IF seq = <<>> THEN dflt ELSE Head(seq)

\* the lines after the first occurrence of title
AfterTitle(lines, title) ==
    LET From(tpos) == IF tpos = {} THEN <<>> ELSE SubSeq(lines, MinOf(tpos) + 1, Len(lines))
    IN  From({i \in 1..Len(lines) : lines[i] = title})

case_payload(case) ==
    LET Payload(txt_full, m, salle, title, teacher) ==
            [raw |-> text_clean(txt_full),
             start |-> IF m = None THEN <<>> ELSE ReplaceChar(m[1].g1, "h", <<":">>),
             end |-> IF m = None THEN <<>> ELSE ReplaceChar(m[1].g2, "h", <<":">>),
             room |-> IF salle = None THEN <<>> ELSE salle[1].room,
             site |-> IF salle = None THEN <<>> ELSE salle[1].site,
             teacher |-> teacher, title |-> title]
        Teacher(txt_full, lines, m, salle, title) ==
            Payload(txt_full, m, salle, title,
                    strip(FirstOr(SelectSeq(AfterTitle(lines, title), LAMBDA s : ~ IsSkipped(s) /\ NameMatch(s)), <<>>)))
        Salle(salles) == IF salles = <<>> THEN None ELSE SalleMatch(Head(salles))
        Lines(txt_full, lines) ==
            Teacher(txt_full, lines,
                    TimePatSearch(Join(lines, <<"\n">>)),
                    Salle(SelectSeq(lines, LAMBDA l : SalleMatch(l) # None)),
                    FirstOr(SelectSeq(lines, LAMBDA s : ~ IsSkipped(s)), <<>>))
        Text(txt_full) == Lines(txt_full, SplitLines(txt_full, <<>>))
    IN  Text(Join(case.texts, <<"\n">>))

\* 1e9, the first best_delta: 1953125 * 2^9
BigDelta == [neg |-> FALSE, m |-> <<19813, 59>>, e |-> 9]

\* Variant of the loop below with <= in place of <: of two headers equally close the
\* later one wins.  The assignment property C5 must reject it.
RECURSIVE NearestLoopTiesLast(_, _, _, _)
NearestLoopTiesLast(day_headers, left_mod, best, best_delta) ==
    LET Step(delta) ==
            IF ~ FloatLt(best_delta, delta)
            THEN NearestLoopTiesLast(Tail(day_headers), left_mod, Some(Head(day_headers).label), delta)
            ELSE NearestLoopTiesLast(Tail(day_headers), left_mod, best, best_delta)
    IN  IF day_headers = <<>> THEN best
        ELSE Step(FloatSubAbs(left_mod, LeftMod(Head(day_headers).left)))

\* the loop of nearest_day_label_for_case: best is None or Some(label)
RECURSIVE NearestLoop(_, _, _, _)
NearestLoop(day_headers, left_mod, best, best_delta) ==
    LET Step(delta) ==
            IF FloatLt(delta, best_delta)
            THEN NearestLoop(Tail(day_headers), left_mod, Some(Head(day_headers).label), delta)
            ELSE NearestLoop(Tail(day_headers), left_mod, best, best_delta)
    IN  IF day_headers = <<>> THEN best
        ELSE Step(FloatSubAbs(left_mod, LeftMod(Head(day_headers).left)))

\* None or Some(label).  A left that is inf is kept by "or 0.0"; its left_mod is nan, no
\* delta is below best_delta and the result is None.
nearest_day_label_for_case(case, day_headers) ==
    LET OrZero(left) == IF left = None \/ left[1].m = <<>> THEN [neg |-> FALSE, m |-> <<>>, e |-> 0] ELSE left[1]
    IN  NearestLoop(day_headers, LeftMod(OrZero(parse_pct_left(case.style))), None, BigDelta)

\* the record build_week_map appends for a "pas de cours" block: it has no site key
PasDeCoursRecord == [raw |-> <<"P", "a", "s", " ", "d", "e", " ", "c", "o", "u", "r", "s", " ", "c", "e", "t", "t", "e", " ", "s", "e", "m", "a", "i", "n", "e">>, start |-> <<>>, end |-> <<>>,
                     room |-> <<>>, teacher |-> <<>>, title |-> <<>>]

\* ev.get(key, ""), and ev.get(key) or ""
Get(ev, key) == IF key \in DOMAIN ev THEN ev[key] ELSE <<>>

\* "pas de cours" in text_clean(c.get_text(" ", strip=True)).lower()
IsPasDeCours(case) == Contains(lower(text_clean(Join(case.texts, <<" ">>))), <<"p", "a", "s", " ", "d", "e", " ", "c", "o", "u", "r", "s">>)

\* Variant of LabelForCase without the "pas de cours" branch: every case is placed
\* by its position.  The property C6 must reject it.
LabelForCaseByPosition(case, day_headers) ==
    LET OrFirst(n) == IF n = None \/ n[1] = <<>> THEN day_headers[1].label ELSE n[1]
    IN  OrFirst(nearest_day_label_for_case(case, day_headers))

\* the key of by_day a case is appended under
LabelForCase(case, day_headers) ==
    LET OrFirst(n) == IF n = None \/ n[1] = <<>> THEN day_headers[1].label ELSE n[1]
    IN  IF IsPasDeCours(case) THEN day_headers[1].label
        ELSE OrFirst(nearest_day_label_for_case(case, day_headers))

\* what is appended for a case
EntryForCase(case) == IF IsPasDeCours(case) THEN PasDeCoursRecord ELSE case_payload(case)

\* the keys of {label: [] for _, label in day_headers} in insertion order
RECURSIVE DictKeys(_, _)
DictKeys(labels, seen) == IF labels = <<>> THEN <<>>
                          ELSE IF Head(labels) \in seen THEN DictKeys(Tail(labels), seen)
                          ELSE <<Head(labels)>> \o DictKeys(Tail(labels), seen \cup {Head(labels)})

\* Variant of AppendedUnder in which a "pas de cours" block is passed over instead of
\* recorded.  The conservation property C15 must reject it.
AppendedUnderWithoutPasDeCours(label, cases, day_headers) ==
    LET Entries(mine) == [i \in 1..Len(mine) |-> EntryForCase(mine[i])]
    IN  Entries(SelectSeq(cases, LAMBDA c : ~ IsPasDeCours(c) /\ LabelForCase(c, day_headers) = label))

\* by_day[label] after the loop over the cases, before the sort
AppendedUnder(label, cases, day_headers) ==
    LET Entries(mine) == [i \in 1..Len(mine) |-> EntryForCase(mine[i])]
    IN  Entries(SelectSeq(cases, LAMBDA c : LabelForCase(c, day_headers) = label))

\* Variant of SortEvents that leaves the list in extraction order.  The ordering
\* property C10 must reject it.
SortEventsSkipped(events) == events

\* list.sort(key=lambda ev: _time_to_minutes(ev.get("start", "")))
SortEvents(events) == StableSort(events, [i \in 1..Len(events) |-> _time_to_minutes(Get(events[i], "start"))])

\* A week map (dict in insertion order) is a sequence of [label, events], labels distinct.
build_week_map(cases, day_headers) ==
    LET ByDay(keys) == [i \in 1..Len(keys) |-> [label |-> keys[i], events |-> SortEvents(AppendedUnder(keys[i], cases, day_headers))]]
    IN  IF day_headers = <<>> THEN <<>>
        ELSE ByDay(DictKeys([i \in 1..Len(day_headers) |-> day_headers[i].label], {}))

\* the two or three lines print_week prints for one event
EventLines(ev) ==
    LET t == IF Get(ev, "start") # <<>> /\ Get(ev, "end") # <<>>
             THEN Get(ev, "start") \o <<"-">> \o Get(ev, "end")
             ELSE <<"(", "h", "o", "r", "a", "i", "r", "e", " ", "n", "/", "d", ")">>
    IN  <<[kind |-> "event", time |-> t, room |-> Get(ev, "room"), site |-> Get(ev, "site"), teacher |-> Get(ev, "teacher")]>>
        \o (IF Get(ev, "title") # <<>> THEN <<[kind |-> "title", text |-> Get(ev, "title")]>> ELSE <<>>)

RECURSIVE EventsLines(_)
EventsLines(events) == IF events = <<>> THEN <<>> ELSE EventLines(Head(events)) \o EventsLines(Tail(events))

\* the lines print_week prints: a day line, then per event its bullet line (time,
\* then the Salle, Site and Prof parts that are not empty) and its title line
RECURSIVE print_week(_)
print_week(by_day) ==
    IF by_day = <<>> THEN <<>>
    ELSE <<[kind |-> "day", text |-> Head(by_day).label]>> \o EventsLines(Head(by_day).events) \o print_week(Tail(by_day))

(***************************************************************************)
(* ICS export of the scraper                                               *)
(***************************************************************************)
MonthNamesRe == {<<"j", "a", "n", "v", "i", "e", "r">>, <<"f", "e_acute", "v", "r", "i", "e", "r">>, <<"f", "e", "v", "r", "i", "e", "r">>, <<"m", "a", "r", "s">>, <<"a", "v", "r", "i", "l">>, <<"m", "a", "i">>, <<"j", "u", "i", "n">>,
                 <<"j", "u", "i", "l", "l", "e", "t">>, <<"a", "o", "u", "t">>, <<"a", "o", "u_circ", "t">>, <<"s", "e", "p", "t", "e", "m", "b", "r", "e">>, <<"o", "c", "t", "o", "b", "r", "e">>, <<"n", "o", "v", "e", "m", "b", "r", "e">>,
                 <<"d", "e", "c", "e", "m", "b", "r", "e">>, <<"d", "e_acute", "c", "e", "m", "b", "r", "e">>}

\* (\d{1,2}).+?(janvier|...) with the day group at i..e-1: None or Some([day, mon])
DayMonthWith(low, i, e) ==
    LET Groups(q) == Some([day |-> SubSeq(low, i, e - 1), mon |-> CHOOSE n \in MonthNamesRe : MatchAt(low, q, n)])
        Month(hits) == IF hits = {} THEN None ELSE Groups(MinOf(hits))
        Line(lim) == Month({q \in (e + 1)..(lim - 1) : \E n \in MonthNamesRe : MatchAt(low, q, n)})
        Stops(stops) == Line(IF stops = {} THEN Len(low) + 1 ELSE MinOf(stops))
    IN  Stops({q \in e..Len(low) : low[q] = "\n"})

DayMonthAt(low, i) ==
    LET Shorter(two) == IF two # None THEN two ELSE DayMonthWith(low, i, i + 1)
    IN  IF i > Len(low) \/ low[i] \notin Digits THEN None
        ELSE Shorter(IF i + 1 <= Len(low) /\ low[i + 1] \in Digits THEN DayMonthWith(low, i, i + 2) ELSE None)

date_for_label_in_week(day_label, monday) ==
    LET Date(day, month) == IF ValidDate(monday.y, month, day) THEN [y |-> monday.y, m |-> month, d |-> day] ELSE monday
        Groups(m) == Date(IntOf(m.day), MonthGet(ReplaceChar(ReplaceChar(m.mon, "u_circ", <<"u">>), "e_acute", <<"e">>))[1])
        Search(low, hits) == IF hits = {} THEN monday ELSE Groups(DayMonthAt(low, MinOf(hits))[1])
        Named(low, names) == IF names # {} THEN AddDays(monday, MinOf(names) - 1)
                             ELSE Search(low, {i \in 1..Len(low) : DayMonthAt(low, i) # None})
        Lowered(low) == Named(low, {i \in 1..7 : StartsWith(low, DOW_FR[i])})
    IN  Lowered(lower(strip(day_label)))

_ics_escape(s) ==
    ReplaceChar(ReplaceChar(ReplaceChar(ReplaceChar(s, "\\", <<"\\", "\\">>), ";", <<"\\", ";">>), ",", <<"\\", ",">>), "\n", <<"\\", "n">>)

\* zero-padded decimal of width w
\* %Y of strftime (glibc) and str(n): the decimal digits of n >= 0, without padding
RECURSIVE StrOfNat(_)
StrOfNat(n) == IF n < 10 THEN <<DigitChar(n)>> ELSE StrOfNat(n \div 10) \o <<DigitChar(n % 10)>>

RECURSIVE Pad(_, _)
Pad(n, w) == IF w = 0 THEN <<>> ELSE Pad(n \div 10, w - 1) \o <<DigitChar(n % 10)>>

\* f"{day:%Y%m%d}"
Ymd(day) == StrOfNat(day.y) \o Pad(day.m, 2) \o Pad(day.d, 2)

\* hashlib.md5(s).hexdigest(): the digest stands for its input (no collisions)
md5_hexdigest(s) == <<"md5", s>>

\* the VEVENT export_ics writes for an event that has start and end
IcsEvent(day, ev) ==
    LET Block(dtstart, dtend, title, loc, descr) ==
            [uid |-> [digest |-> md5_hexdigest(Join(<<dtstart, dtend, title, loc, descr>>, <<"|">>)), domain |-> <<"@", "e", "d", "t", "-", "w", "i", "g", "o", "r">>],
             dtstart |-> dtstart, dtend |-> dtend, summary |-> title, location |-> loc, description |-> descr]
        Paren(site) == IF site # <<>> THEN <<"(">> \o site \o <<")">> ELSE <<>>
    IN  Block(Ymd(day) \o <<"T">> \o ReplaceChar(ev.start, ":", <<>>) \o <<"0", "0">>,
              Ymd(day) \o <<"T">> \o ReplaceChar(ev.end, ":", <<>>) \o <<"0", "0">>,
              _ics_escape(IF Get(ev, "title") # <<>> THEN Get(ev, "title") ELSE <<"C", "o", "u", "r", "s">>),
              _ics_escape(strip(Get(ev, "room") \o <<" ">> \o Paren(Get(ev, "site")))),
              _ics_escape(Get(ev, "teacher")))

\* the condition under which export_ics writes a VEVENT for ev
IcsKeeps(ev) == Get(ev, "start") # <<>> /\ Get(ev, "end") # <<>>

RECURSIVE IcsEvents(_, _)
IcsEvents(day, events) ==
    IF events = <<>> THEN <<>>
    ELSE (IF IcsKeeps(Head(events)) THEN <<IcsEvent(day, Head(events))>> ELSE <<>>) \o IcsEvents(day, Tail(events))

RECURSIVE IcsWeek(_, _)
IcsWeek(monday, by_day) ==
    IF by_day = <<>> THEN <<>>
    ELSE IcsEvents(date_for_label_in_week(Head(by_day).label, monday), Head(by_day).events) \o IcsWeek(monday, Tail(by_day))

\* the VEVENT blocks of the calendar, in the order written; the fixed header, the
\* VTIMEZONE block and DTSTAMP are not represented
RECURSIVE export_ics(_)
export_ics(payload) ==
    IF payload = <<>> THEN <<>>
    ELSE IcsWeek(Head(payload).monday, Head(payload).week_map) \o export_ics(Tail(payload))

(***************************************************************************)
(* scripts/build_site.py: ICS of the week files of a directory             *)
(***************************************************************************)
\* int(s): white space around, an optional sign, digits with single underscores
\* between them; None where int() raises ValueError.  The white space of int() is that
\* of str.strip() without the separators \x1c to \x1f.
IntParse(s) ==
    LET Cut(keep) == IF keep = {} THEN <<>> ELSE SubSeq(s, MinOf(keep), MaxOf(keep))
        Digs(t) == IF /\ t # <<>>
                      /\ \A i \in 1..Len(t) : t[i] \in Digits \cup {"_"}
                      /\ t[1] # "_" /\ t[Len(t)] # "_"
                      /\ \A i \in 1..(Len(t) - 1) : ~ (t[i] = "_" /\ t[i + 1] = "_")
                   THEN Some(IntOf(SelectSeq(t, LAMBDA c : c \in Digits)))
                   ELSE None
        Minus(v) == IF v = None THEN None ELSE Some(-v[1])
        Signed(t) == IF t # <<>> /\ Head(t) = "-" THEN Minus(Digs(Tail(t)))
                     ELSE IF t # <<>> /\ Head(t) = "+" THEN Digs(Tail(t))
                     ELSE Digs(t)
    IN  Signed(Cut({i \in 1..Len(s) : s[i] \notin Spaces \ {"fs", "gs", "rs", "us"}}))

\* s.split(sep) for a one-character sep
RECURSIVE Split(_, _, _)
Split(s, sep, cur) == IF s = <<>> THEN <<cur>>
                      ELSE IF Head(s) = sep THEN <<cur>> \o Split(Tail(s), sep, <<>>)
                      ELSE Split(Tail(s), sep, Append(cur, Head(s)))

\* h, m = parts; int(h), int(m): None where it raises, else Some(<<h, m>>)
TwoInts(parts) ==
    LET Both(h, m) == IF h = None \/ m = None THEN None ELSE Some(<<h[1], m[1]>>)
    IN  IF Len(parts) # 2 THEN None ELSE Both(IntParse(parts[1]), IntParse(parts[2]))

\* parse_time: None where it raises, else Some(<<h, m>>)
parse_time(s) == TwoInts(Split(ReplaceChar(s, "h", <<":">>), ":", <<>>))

\* parse_day_label: None where it raises, else Some(<<month, day>>); the day is not validated
parse_day_label(label) ==
    LET Date(day, month) == IF month = None THEN None ELSE Some(<<month[1], day>>)
        Groups(m) == Date(IntOf(m.day), MonthGet([i \in 1..Len(m.mon) |-> StripAccent(m.mon[i])]))
        Search(lab, hits) == IF hits = {} THEN None ELSE Groups(DayHeaderMatchAt(lab, MinOf(hits))[1])
        Lowered(lab) == Search(lab, {i \in 1..Len(lab) : DayHeaderMatchAt(lab, i) # None})
    IN  Lowered(lower(text_clean(label)))

\* ics_escape of build_site.py
\* s.replace("\r\n", "\n")
RECURSIVE ReplaceCrLf(_)
ReplaceCrLf(s) == IF s = <<>> THEN <<>>
                  ELSE IF Len(s) >= 2 /\ s[1] = "\r" /\ s[2] = "\n" THEN <<"\n">> \o ReplaceCrLf(SubSeq(s, 3, Len(s)))
                  ELSE <<Head(s)>> \o ReplaceCrLf(Tail(s))

ics_escape(s) ==
    ReplaceChar(ReplaceChar(ReplaceCrLf(
        ReplaceChar(ReplaceChar(ReplaceChar(s, "\\", <<"\\", "\\">>), ";", <<"\\", ";">>), ",", <<"\\", ",">>)),
        "\r", <<"\n">>), "\n", <<"\\", "n">>)

\* hashlib.sha1(s).hexdigest(): the digest stands for its input (no collisions)
sha1_hexdigest(s) == <<"sha1", s>>

\* week_monday, the stem of the file name: YYYY-MM-DD
IsoDate(dte) == Pad(dte.y, 4) \o <<"-">> \o Pad(dte.m, 2) \o <<"-">> \o Pad(dte.d, 2)

\* ical_dt(dt.datetime(y, m, d, hh, mm))
IcalDt(y, m, d, hh, mm) == StrOfNat(y) \o Pad(m, 2) \o Pad(d, 2) \o <<"T">> \o Pad(hh, 2) \o Pad(mm, 2) \o <<"0", "0">>

\* the events of build_site.py that reach dt.datetime(...): start and end present and parse_time accepts both
SiteKeeps(ev) == /\ Get(ev, "start") # <<>> /\ Get(ev, "end") # <<>>
                 /\ parse_time(ev.start) # None /\ parse_time(ev.end) # None

\* dt.datetime(year, month, day, h, m) raises ValueError for the start or the end of ev
SiteRaises(year, md, ev) ==
    LET Raises(s, e) == ~ (ValidDate(year, md[1], md[2]) /\ s[1] \in 0..23 /\ s[2] \in 0..59 /\ e[1] \in 0..23 /\ e[2] \in 0..59)
    IN  Raises(parse_time(ev.start)[1], parse_time(ev.end)[1])

\* f"{room} ({site})" if site and room else site or room
SiteLocation(room, site) == IF site # <<>> /\ room # <<>> THEN room \o <<" ", "(">> \o site \o <<")">>
                            ELSE IF site # <<>> THEN site ELSE room

\* (start, ics) of one event: make_event and the lines of main that prepare its arguments;
\* start stands for the datetime the events are sorted by
SiteEvent(week_monday, md, ev) ==
    LET Block(year, s, e, title, room, site) ==
            [start |-> ((((year * 13 + md[1]) * 32 + md[2]) * 24 + s[1]) * 60 + s[2]),
             ics |-> [uid |-> [digest |-> sha1_hexdigest(Join(<<IsoDate(week_monday), Pad(md[1], 2) \o <<"-">> \o Pad(md[2], 2),
                                                                 ev.start, ev.end, title, room, site>>, <<"|">>)),
                               domain |-> <<"@", "e", "d", "t", "-", "s", "c", "r", "a", "p">>],
                      dtstart |-> IcalDt(year, md[1], md[2], s[1], s[2]),
                      dtend |-> IcalDt(year, md[1], md[2], e[1], e[2]),
                      summary |-> ics_escape(title),
                      location |-> ics_escape(SiteLocation(room, site)),
                      description |-> ics_escape(strip(Join(SelectSeq(<<Get(ev, "teacher"), Get(ev, "raw")>>, LAMBDA l : l # <<>>), <<"\n">>)))]]
    IN  Block(week_monday.y, parse_time(ev.start)[1], parse_time(ev.end)[1],
              IF Get(ev, "title") # <<>> THEN Get(ev, "title") ELSE <<"C", "o", "u", "r", "s">>,
              Get(ev, "room"), Get(ev, "site"))

RECURSIVE SiteDayEvents(_, _, _)
SiteDayEvents(week_monday, md, items) ==
    IF items = <<>> THEN <<>>
    ELSE (IF SiteKeeps(Head(items)) THEN <<SiteEvent(week_monday, md, Head(items))>> ELSE <<>>)
         \o SiteDayEvents(week_monday, md, Tail(items))

RECURSIVE SiteFileEvents(_, _)
SiteFileEvents(week_monday, data) ==
    LET Day(md) == IF md = None THEN <<>> ELSE SiteDayEvents(week_monday, md[1], Head(data).events)
    IN  IF data = <<>> THEN <<>>
        ELSE Day(parse_day_label(Head(data).label)) \o SiteFileEvents(week_monday, Tail(data))

RECURSIVE SiteAllEvents(_)
SiteAllEvents(files) ==
    IF files = <<>> THEN <<>>
    ELSE SiteFileEvents(Head(files).monday, Head(files).week_map) \o SiteAllEvents(Tail(files))

\* some event of some file makes dt.datetime raise: main ends with a traceback, nothing is written
SiteCrashes(files) ==
    LET DayCrashes(year, md, events) ==
            /\ md # None
            /\ \E i \in 1..Len(events) : SiteKeeps(events[i]) /\ SiteRaises(year, md[1], events[i])
    IN  \E f \in 1..Len(files) : \E d \in 1..Len(files[f].week_map) :
            DayCrashes(files[f].monday.y, parse_day_label(files[f].week_map[d].label), files[f].week_map[d].events)

\* main of scripts/build_site.py on the week files (in file-name order):
\* [ok, events]: ok is FALSE when main raises; events are the VEVENTs of ical.ics
build_site_main(files) ==
    LET Written(sorted) == [ok |-> TRUE, events |-> [i \in 1..Len(sorted) |-> sorted[i].ics]]
        Sorted(evs) == Written(StableSort(evs, [i \in 1..Len(evs) |-> evs[i].start]))
    IN  IF SiteCrashes(files) THEN [ok |-> FALSE, events |-> <<>>]
        ELSE Sorted(SiteAllEvents(files))

(***************************************************************************)
(* .github/workflows/scripts/build_site.py: ICS of one week.json           *)
(***************************************************************************)
\* re.match(r"\s*([A-Za-z...]+)", day_label): the group, lowered; <<>> when there is no match
LeadingWord(day_label) ==
    LET Word(a) == lower(SubSeq(day_label, a, SpanEnd(day_label, a, AsciiLower \cup AsciiUpper \cup AccentedLower) - 1))
    IN  Word(SpanEnd(day_label, 1, Spaces))

\* map(int, s.split(":")) unpacked into two names: None where it raises
SplitHm(s) == TwoInts(Split(s, ":", <<>>))

\* start/end present: the events the workflow script builds a VEVENT for
WeekKeeps(ev) == Get(ev, "start") # <<>> /\ Get(ev, "end") # <<>>

\* the split or dt.time(h, m) raises for ev
WeekRaises(ev) ==
    LET Raises(s, e) == \/ s = None \/ e = None
                        \/ s[1][1] \notin 0..23 \/ s[1][2] \notin 0..59
                        \/ e[1][1] \notin 0..23 \/ e[1][2] \notin 0..59
    IN  Raises(SplitHm(ev.start), SplitHm(ev.end))

\* dtstart.isoformat()
IsoDateTime(day, hm) == IsoDate(day) \o <<"T">> \o Pad(hm[1], 2) \o <<":">> \o Pad(hm[2], 2) \o <<":", "0", "0">>

WeekEvent(day_date, ev) ==
    LET Block(title, s, e, loc) ==
            [uid |-> [digest |-> md5_hexdigest(Join(<<title, IsoDateTime(day_date, s), IsoDateTime(day_date, e), loc>>, <<"-">>)),
                      domain |-> <<"@", "t", "h", "e", "o", "d", "l", "c", "q">>],
             dtstart |-> IcalDt(day_date.y, day_date.m, day_date.d, s[1], s[2]),
             dtend |-> IcalDt(day_date.y, day_date.m, day_date.d, e[1], e[2]),
             summary |-> title, location |-> loc,
             description |-> Join((IF Get(ev, "teacher") # <<>> THEN <<<<"P", "r", "o", "f", ":", " ">> \o Get(ev, "teacher")>> ELSE <<>>)
                                  \o (IF loc # <<>> THEN <<<<"S", "a", "l", "l", "e", "/", "S", "i", "t", "e", ":", " ">> \o loc>> ELSE <<>>), <<"\\", "n">>)]
    IN  Block(IF Get(ev, "title") # <<>> THEN Get(ev, "title")
              ELSE IF Get(ev, "raw") # <<>> THEN Get(ev, "raw") ELSE <<"C", "o", "u", "r", "s">>,
              SplitHm(ev.start)[1], SplitHm(ev.end)[1],
              Join(SelectSeq(<<Get(ev, "room"), Get(ev, "site")>>, LAMBDA p : p # <<>>), <<",", " ">>))

\* DOW.index(dow): 0 when dow is no weekday name, else its position 1..7
DowIndex(dow) == IF \E i \in 1..7 : DOW_FR[i] = dow THEN CHOOSE i \in 1..7 : DOW_FR[i] = dow ELSE 0

RECURSIVE WeekDayEvents(_, _)
WeekDayEvents(day_date, evs) ==
    IF evs = <<>> THEN <<>>
    ELSE (IF WeekKeeps(Head(evs)) THEN <<WeekEvent(day_date, Head(evs))>> ELSE <<>>) \o WeekDayEvents(day_date, Tail(evs))

RECURSIVE WeekAllEvents(_, _)
WeekAllEvents(monday, data) ==
    LET Day(idx) == IF idx = 0 THEN <<>> ELSE WeekDayEvents(AddDays(monday, idx - 1), Head(data).events)
    IN  IF data = <<>> THEN <<>>
        ELSE Day(DowIndex(LeadingWord(Head(data).label))) \o WeekAllEvents(monday, Tail(data))

WeekCrashes(data) ==
    \E d \in 1..Len(data) :
        /\ DowIndex(LeadingWord(data[d].label)) # 0
        /\ \E i \in 1..Len(data[d].events) : WeekKeeps(data[d].events[i]) /\ WeekRaises(data[d].events[i])

\* main of the workflow script on one week.json and its --monday: [ok, events] as above
week_site_main(monday, data) ==
    IF WeekCrashes(data) THEN [ok |-> FALSE, events |-> <<>>]
    ELSE [ok |-> TRUE, events |-> WeekAllEvents(monday, data)]

(***************************************************************************)
(* Inputs                                                                  *)
(***************************************************************************)
MaxWeeks == 2

MaxJours == 3

MaxHeaders == 3

MaxCases == 3

MaxEvents == 2

\* all sequences over S of length at most n
SeqsUpTo(S, n) == UNION {[1..m -> S] : m \in 0..n}

Monday15 == [y |-> 2025, m |-> 9, d |-> 15]

Monday22 == [y |-> 2025, m |-> 9, d |-> 22]

Monday08 == [y |-> 2025, m |-> 9, d |-> 8]

Lundi15 == <<"L", "u", "n", "d", "i", " ", "1", "5", " ", "s", "e", "p", "t", "e", "m", "b", "r", "e">>

Mardi16 == <<"M", "a", "r", "d", "i", " ", "1", "6", " ", "s", "e", "p", "t", "e", "m", "b", "r", "e">>

Lundi22 == <<"L", "u", "n", "d", "i", " ", "2", "2", " ", "s", "e", "p", "t", "e", "m", "b", "r", "e">>

Mardi23 == <<"M", "a", "r", "d", "i", " ", "2", "3", " ", "s", "e", "p", "t", "e", "m", "b", "r", "e">>

Lundi6 == <<"L", "u", "n", "d", "i", " ", "6", " ", "o", "c", "t", "o", "b", "r", "e">>

Semaine == <<"S", "e", "m", "a", "i", "n", "e", " ", "3", "8">>

\* style attributes: with a left: of n percent, and without left:
Left(n) == <<"l", "e", "f", "t", ":">> \o (IF n >= 100 THEN Pad(n, 3) ELSE IF n >= 10 THEN Pad(n, 2) ELSE Pad(n, 1)) \o <<".", "0", "0", "%">>

NoLeft == <<"t", "o", "p", ":", "0">>

\* a left: of 310 digits: float() gives inf for it
HugeLeft == <<"l", "e", "f", "t", ":">> \o [i \in 1..310 |-> "9"] \o <<"%">>

Jour(style, text) == [style |-> style, text |-> text]

Case(id, style, texts) == [id |-> id, style |-> style, texts |-> texts]

CaseAlgo == Case(<<>>, Left(103), <<<<"0", "9", ":", "0", "0", " ", "-", " ", "1", "0", ":", "3", "0">>, <<"A", "l", "g", "o">>, <<"S", "a", "l", "l", "e", ":", " ", "B", "2", " ", "(", "N", "o", "r", "d", ")">>, <<"A", "n", "n", " ", "L", "e", "e">>>>)

CaseMaths == Case(<<>>, Left(104), <<<<"8", "h", "1", "5", " ", "-", " ", "9", "h", "0", "0">>, <<"M", "a", "t", "h", "s">>>>)

CaseTP == Case(<<>>, Left(103), <<<<"0", "9", ":", "0", "0", " ", "-", " ", "0", "9", ":", "3", "0">>, <<"T", "P">>>>)

CaseBio == Case(<<>>, Left(104), <<<<"9", "H", "0", "0", " ", "-", " ", "1", "0", "H", "0", "0">>, <<"B", "i", "o">>>>)

CaseNuit == Case(<<>>, Left(103), <<<<"2", "5", ":", "9", "9", " ", "-", " ", "2", "6", ":", "0", "0">>, <<"N", "u", "i", "t">>>>)

CaseInfo == Case(<<>>, Left(110), <<<<"I", "n", "f", "o">>>>)

CasePdc == Case(<<>>, Left(150), <<<<"P", "a", "s", " ", "d", "e">>, <<"c", "o", "u", "r", "s", " ", "c", "e", "t", "t", "e", " ", "s", "e", "m", "a", "i", "n", "e">>>>)

CaseVirgule == Case(<<>>, Left(103), <<<<"1", "0", ":", "0", "0", " ", "-", " ", "1", "1", ":", "0", "0">>, <<"M", "a", "t", "h", "s", ",", " ", "T", "D", ";", " ", "A">>>>)

CaseSansTitre == Case(<<>>, Left(103), <<<<"1", "1", ":", "0", "0", " ", "-", " ", "1", "2", ":", "0", "0">>, <<"S", "a", "l", "l", "e", ":", " ", "B", "2">>>>)

CaseAvant == Case(<<"A", "v", "a", "n", "t">>, Left(103), <<<<"x">>>>)

CaseElsewhere == Case(<<>>, Left(203), <<<<"1", "0", ":", "0", "0", " ", "-", " ", "1", "1", ":", "0", "0">>, <<"B", "i", "o">>>>)

\* pages get_authenticated_html returns in a run of main
PageTwoWeeks ==
    [jours |-> <<Jour(Left(3), Lundi15), Jour(Left(22), Mardi16), Jour(Left(103), Lundi22), Jour(Left(122), Mardi23)>>,
     cases |-> <<Case(<<>>, Left(3), <<<<"0", "9", ":", "0", "0", " ", "-", " ", "1", "0", ":", "3", "0">>, <<"A", "l", "g", "o">>, <<"S", "a", "l", "l", "e", ":", " ", "B", "2", " ", "(", "N", "o", "r", "d", ")">>, <<"A", "n", "n", " ", "L", "e", "e">>>>),
                 Case(<<>>, Left(122), <<<<"1", "4", "h", "0", "0", " ", "-", " ", "1", "5", "h", "3", "0">>, <<"M", "a", "t", "h", "s">>>>),
                 Case(<<"A", "p", "r", "e", "s">>, Left(199), <<<<"x">>>>)>>]

PageNoHeaders ==
    [jours |-> <<Jour(NoLeft, Lundi15), Jour(Left(3), Semaine)>>,
     cases |-> <<Case(<<>>, Left(3), <<<<"0", "9", ":", "0", "0", " ", "-", " ", "1", "0", ":", "3", "0">>, <<"A", "l", "g", "o">>>>)>>]

PageOtherWeek ==
    [jours |-> <<Jour(Left(3), Lundi6)>>,
     cases |-> <<Case(<<>>, Left(3), <<<<"1", "0", ":", "0", "0", " ", "-", " ", "1", "1", ":", "0", "0">>, <<"B", "i", "o">>>>)>>]

PagePasDeCours ==
    [jours |-> <<Jour(Left(3), Lundi15), Jour(Left(22), Mardi16)>>,
     cases |-> <<Case(<<>>, Left(40), <<<<"P", "a", "s", " ", "d", "e", " ", "c", "o", "u", "r", "s", " ", "c", "e", "t", "t", "e", " ", "s", "e", "m", "a", "i", "n", "e">>>>)>>]

\* a page with a block outside the grid among its day headers, and one among its cases
PageHugeHeader ==
    [jours |-> <<Jour(Left(3), Lundi15), Jour(HugeLeft, Semaine)>>,
     cases |-> <<Case(<<>>, Left(3), <<<<"0", "9", ":", "0", "0", " ", "-", " ", "1", "0", ":", "3", "0">>, <<"A", "l", "g", "o">>>>)>>]

PageHugeCase ==
    [jours |-> <<Jour(Left(3), Lundi15)>>,
     cases |-> <<Case(<<>>, Left(3), <<<<"0", "9", ":", "0", "0", " ", "-", " ", "1", "0", ":", "3", "0">>, <<"A", "l", "g", "o">>>>), Case(<<>>, HugeLeft, <<<<"x">>>>)>>]

Pages == {PageTwoWeeks, PageNoHeaders, PageOtherWeek, PagePasDeCours, PageHugeHeader, PageHugeCase}

(***************************************************************************)
(* main of fetch_edt_requests.py                                           *)
(***************************************************************************)
\* max(1, args.weeks)
NWeeks == IF args.weeks < 1 THEN 1 ELSE args.weeks

\* monday0 + dt.timedelta(days=7*k)
MondayOf(i) == AddDays(monday0, 7 * i)

\* Variant of IsFirstWeek: the first week that was parsed, whatever its index.  The
\* property C2 must reject it.
IsFirstParsedWeek == weeks_payload = <<>>

\* if k == 0: the listing and the JSON are for the first requested week only
IsFirstWeek == k = 0

Init ==
    /\ pc = "loop"
    /\ args \in [weeks : 0..MaxWeeks, json : BOOLEAN, ics : BOOLEAN]
    /\ monday0 = Monday15
    /\ k = 0
    /\ html = None
    /\ weeks_payload = <<>>
    /\ console = <<>>
    /\ json_out = None
    /\ ics_out = None
    /\ fin = None
    /\ fout = None

\* The line main prints for the week, then get_authenticated_html(url, ...): None on a
\* network or login failure, else the page.  What it writes on stdout: when the server
\* answers with the CAS login page and no identifier is known (no --user, no
\* WIGOR_USER), input() writes its prompt (the password prompt of getpass goes to the
\* terminal or to stderr); when the page has the login form, login_cas_if_needed prints
\* its notice before it posts the form, whether the login then succeeds or not.  After
\* the prompt alone (the input fails, or the page has no login form) the result is None.
Retrieve ==
    /\ pc = "loop"
    /\ k < NWeeks
    /\ \E r \in {None} \cup {Some(p) : p \in Pages} :
       \E out \in {<<>>, <<[kind |-> "cas"]>>, <<[kind |-> "prompt"]>>,
                   <<[kind |-> "prompt"], [kind |-> "cas"]>>} :
           /\ out = <<[kind |-> "prompt"]>> => r = None
           /\ html' = r
           /\ console' = console \o <<[kind |-> "fetch", monday |-> MondayOf(k)]>> \o out
    /\ pc' = "got"
    /\ UNCHANGED <<args, monday0, k, weeks_payload, json_out, ics_out, fin, fout>>

\* if html is None: sys.exit(1)
ExitOnFailure ==
    /\ pc = "got"
    /\ html = None
    /\ pc' = "exit1"
    /\ UNCHANGED <<args, monday0, k, html, weeks_payload, console, json_out, ics_out, fin, fout>>

\* if panel is None: two notices, continue
SkipWeek ==
    /\ pc = "got"
    /\ html # None
    /\ week_panel_index_for_target(html[1].jours, MondayOf(k)) = Returns(None)
    /\ console' = console \o <<[kind |-> "nopanel", monday |-> MondayOf(k)], [kind |-> "hint"]>>
    /\ k' = k + 1
    /\ pc' = "loop"
    /\ UNCHANGED <<args, monday0, html, weeks_payload, json_out, ics_out, fin, fout>>

\* the rest of the loop body: headers, cases, week map, listing and JSON of the first week
ParseWeek ==
    LET Record(panel, day_headers, cases, week_map) ==
            /\ console' = console
                          \o <<[kind |-> "panel", panel |-> panel, headers |-> Len(day_headers), cases |-> Len(cases)]>>
                          \o (IF IsFirstWeek THEN print_week(week_map) ELSE <<>>)
                          \o (IF IsFirstWeek /\ args.json THEN <<[kind |-> "json"]>> ELSE <<>>)
            /\ json_out' = IF IsFirstWeek /\ args.json THEN Some(week_map) ELSE json_out
            /\ weeks_payload' = Append(weeks_payload, [monday |-> MondayOf(k), week_map |-> week_map])
        Build(panel, day_headers, cases) ==
            /\ ~ day_headers.raises
            /\ ~ cases.raises
            /\ Record(panel, day_headers.value, cases.value, build_week_map(cases.value, day_headers.value))
        Parse(panel) ==
            /\ ~ panel.raises
            /\ panel.value # None
            /\ Build(panel.value[1], day_headers_for_panel(html[1].jours, panel.value[1]),
                     extract_cases_for_panel(html[1].cases, panel.value[1]))
    IN  /\ pc = "got"
        /\ html # None
        /\ Parse(week_panel_index_for_target(html[1].jours, MondayOf(k)))
        /\ k' = k + 1
        /\ pc' = "loop"
        /\ UNCHANGED <<args, monday0, html, ics_out, fin, fout>>

\* main catches no exception of the loop body: a ValueError of the panel selection, of
\* the headers or of the cases ends the run with a traceback, before anything of the
\* week is printed
Traceback ==
    LET Parsed(panel) == IF day_headers_for_panel(html[1].jours, panel).raises THEN TRUE
                         ELSE extract_cases_for_panel(html[1].cases, panel).raises
        Raised(panel) == IF panel.raises THEN TRUE
                         ELSE IF panel.value = None THEN FALSE
                         ELSE Parsed(panel.value[1])
    IN  /\ pc = "got"
        /\ html # None
        /\ Raised(week_panel_index_for_target(html[1].jours, MondayOf(k)))
        /\ pc' = "traceback"
        /\ UNCHANGED <<args, monday0, k, html, weeks_payload, console, json_out, ics_out, fin, fout>>

\* after the loop: if args.ics: export_ics(weeks_payload, args.ics)
Export ==
    /\ pc = "loop"
    /\ k = NWeeks
    /\ ics_out' = IF args.ics THEN Some(export_ics(weeks_payload)) ELSE ics_out
    /\ console' = IF args.ics THEN Append(console, [kind |-> "ics"]) ELSE console
    /\ pc' = "done"
    /\ UNCHANGED <<args, monday0, k, html, weeks_payload, json_out, fin, fout>>

Next == Retrieve \/ ExitOnFailure \/ SkipWeek \/ ParseWeek \/ Traceback \/ Export

Spec == Init /\ [][Next]_vars


(***************************************************************************)
(* Claims about main                                                       *)
(***************************************************************************)
\* the notice of main for a week without panel was printed for the first requested week
FirstWeekNoPanel == \E i \in 1..Len(console) : console[i] = [kind |-> "nopanel", monday |-> monday0]

\* the kinds of the lines print_week and the JSON export print
ListingKinds == {"day", "event", "title", "json"}

\* C1 (as claimed): when the retrieval of a week k > 0 fails, main skips that week and
\* goes on with week k+1, keeping the weeks parsed so far for the ICS export.
C1_FailedRetrievalSkipsWeek ==
    [][(pc = "got" /\ html = None /\ k > 0) => (pc' = "loop" /\ k' = k + 1 /\ weeks_payload' = weeks_payload)]_vars

\* C2 (as claimed): when no panel is identified for the first requested week the run
\* is over: no later week is fetched and no listing, JSON or ICS is produced.
C2_FirstWeekNoPanelIsFatal ==
    FirstWeekNoPanel =>
        /\ \A i \in 1..Len(console) : console[i].kind = "fetch" => console[i].monday = monday0
        /\ \A i \in 1..Len(console) : console[i].kind \notin ListingKinds
        /\ json_out = None
        /\ ics_out = None

\* C2 (amended): when no panel is identified for the first requested week, that week
\* is skipped: the run prints no listing and writes no JSON, the first week is not part
\* of the payload, and main goes on: a run that reaches its end has fetched every
\* requested week and, with --ics, has written the ICS of the weeks parsed after it.
C2_FirstWeekNoPanelIsSkipped ==
    FirstWeekNoPanel =>
        /\ \A i \in 1..Len(console) : console[i].kind \notin ListingKinds
        /\ json_out = None
        /\ \A i \in 1..Len(weeks_payload) : weeks_payload[i].monday # monday0
        /\ pc = "done" =>
              /\ \A w \in 0..(NWeeks - 1) : \E i \in 1..Len(console) : console[i] = [kind |-> "fetch", monday |-> MondayOf(w)]
              /\ args.ics => ics_out = Some(export_ics(weeks_payload))

\* C2 (witness): the first week had no panel, the second week was parsed, and the ICS
\* written at the end holds its events.
C2_Witness ==
    /\ FirstWeekNoPanel
    /\ pc = "done"
    /\ Len(weeks_payload) = 1
    /\ ics_out # None
    /\ ics_out[1] # <<>>

\* C3 (as claimed): whenever no day header of the page falls in the seven days of the
\* target week, the week is skipped and adds nothing to the payload.
C3_NoOverlapSkipsWeek ==
    [][(/\ pc = "got"
        /\ html # None
        /\ \A i \in 1..Len(html[1].jours) :
               parse_pct_left(html[1].jours[i].style) = None
               \/ parse_day_header_date(html[1].jours[i].text) = None
               \/ parse_day_header_date(html[1].jours[i].text)[1] \notin TargetDaysMd(MondayOf(k)))
       => (k' = k + 1 /\ weeks_payload' = weeks_payload)]_vars

\* the style has a left: that float() turns into an infinity
HasInfiniteLeft(style) == parse_pct_left(style) # None /\ ~ FloatIsFinite(parse_pct_left(style)[1])

\* the run ended in the loop body of week k without printing or recording anything
EndsInLoopBody == pc' = "traceback" /\ k' = k /\ weeks_payload' = weeks_payload /\ console' = console

\* C3 (amended): on a page whose left percentages are finite the week is skipped,
\* adding nothing to the payload, exactly when no day header with a left percentage
\* has a resolvable date; in every other case a panel is selected, also when none of
\* its headers falls in the target week, and the week is added to the payload.  An
\* infinite left percentage on a day header, or on a case that is not avant or apres
\* once a panel is selected, ends the run with an uncaught ValueError instead.
C3_NoResolvableHeaderSkipsWeek ==
    [][(pc = "got" /\ html # None) =>
          IF \E i \in 1..Len(html[1].jours) : HasInfiniteLeft(html[1].jours[i].style)
          THEN EndsInLoopBody
          ELSE IF \A i \in 1..Len(html[1].jours) :
                 parse_pct_left(html[1].jours[i].style) = None \/ parse_day_header_date(html[1].jours[i].text) = None
          THEN /\ weeks_payload' = weeks_payload
               /\ k' = k + 1
               /\ console' = console \o <<[kind |-> "nopanel", monday |-> MondayOf(k)], [kind |-> "hint"]>>
          ELSE IF \E i \in 1..Len(html[1].cases) :
                 lower(html[1].cases[i].id) \notin {<<"a", "v", "a", "n", "t">>, <<"a", "p", "r", "e", "s">>} /\ HasInfiniteLeft(html[1].cases[i].style)
          THEN EndsInLoopBody
          ELSE /\ Len(weeks_payload') = Len(weeks_payload) + 1
               /\ weeks_payload'[Len(weeks_payload')].monday = MondayOf(k)
               /\ k' = k + 1]_vars

\* C3 (witness): a page without resolvable header was skipped and the run went on to
\* the next week.
C3_Witness ==
    /\ pc = "loop"
    /\ k = 1
    /\ html # None
    /\ html[1].jours # <<>>
    /\ \A i \in 1..Len(html[1].jours) :
           parse_pct_left(html[1].jours[i].style) = None \/ parse_day_header_date(html[1].jours[i].text) = None
    /\ weeks_payload = <<>>
    /\ console[Len(console)] = [kind |-> "hint"]

\* the keys of an event object of the JSON output
EventKeys == {"raw", "start", "end", "room", "site", "teacher", "title"}

\* C11 (as claimed): every event object of every day of the JSON output has exactly the
\* seven keys raw, start, end, room, site, teacher and title.
C11_EventsHaveSevenKeys ==
    json_out # None =>
        \A d \in 1..Len(json_out[1]) : \A i \in 1..Len(json_out[1][d].events) :
            DOMAIN json_out[1][d].events[i] = EventKeys

(***************************************************************************)
(* Panel selection on its own: week_panel_index_for_target on the Jour     *)
(* blocks of a page                                                        *)
(***************************************************************************)
PanelJours == {Jour(NoLeft, Lundi15), Jour(Left(3), Lundi15), Jour(Left(103), Lundi15), Jour(Left(22), Mardi16),
               Jour(Left(203), Mardi16), Jour(Left(3), Lundi22), Jour(Left(103), Semaine), Jour(HugeLeft, Semaine)}

InitPanel ==
    /\ pc = "select"
    /\ fin \in [jours : SeqsUpTo(PanelJours, MaxJours), target_monday : {Monday15, Monday22}]
    /\ fout = None
    /\ args = None /\ monday0 = None /\ k = 0 /\ html = None /\ weeks_payload = <<>>
    /\ console = <<>> /\ json_out = None /\ ics_out = None

\* panel = week_panel_index_for_target(soup, monday): it returns the panel, or raises
SelectPanel ==
    /\ pc = "select"
    /\ \E panel \in {week_panel_index_for_target(fin.jours, fin.target_monday)} :
           IF panel.raises THEN fout' = None /\ pc' = "raised"
           ELSE fout' = panel.value /\ pc' = "selected"
    /\ UNCHANGED <<args, monday0, k, html, weeks_payload, console, json_out, ics_out, fin>>

NextPanel == SelectPanel

SpecPanel == InitPanel /\ [][NextPanel]_vars

\* the panels of the day headers, in document order (None for a header without a left
\* percentage)
HeaderPanels(jours) ==
    LET Panel(left) == IF left = None THEN None ELSE Some(PanelOf(left[1]).value)
    IN  [i \in 1..Len(jours) |-> Panel(parse_pct_left(jours[i].style))]

\* the positions of the day headers that have a left percentage and a resolvable
\* date; md[i] is the date of the i-th header (None when it has none)
UsableHeaders(pan, md) == {i \in 1..Len(pan) : pan[i] # None /\ md[i] # None}

\* the positions of the usable headers of panel p
HeadersOfPanel(pan, md, p) == {i \in UsableHeaders(pan, md) : pan[i][1] = p}

\* the number of distinct (month, day) pairs of panel p that fall in the days of week
ScoreOfPanel(pan, md, p, week) == Cardinality({d \in {md[i][1] : i \in HeadersOfPanel(pan, md, p)} : d \in week})

\* the dates of the day headers, in document order (None for a label without date)
HeaderDates(jours) == [i \in 1..Len(jours) |-> parse_day_header_date(jours[i].text)]

\* the (month, day) pairs of monday .. monday + 6
WeekOf(monday) == {<<AddDays(monday, n).m, AddDays(monday, n).d>> : n \in 0..6}

\* C4: when the selection returns, which it does unless a left percentage is infinite
\* (int() then raises ValueError), the selected panel has the maximal score over the panels of the page; among the
\* panels of maximal score it is the one whose first header comes first in the
\* document; no panel is selected exactly when no header with a left percentage has a
\* resolvable date.
C4_SelectsFirstBestPanel ==
    pc = "selected" =>
        \A pan \in {HeaderPanels(fin.jours)} : \A md \in {HeaderDates(fin.jours)} : \A week \in {WeekOf(fin.target_monday)} :
            IF UsableHeaders(pan, md) = {} THEN fout = None
            ELSE /\ fout # None
                 /\ HeadersOfPanel(pan, md, fout[1]) # {}
                 /\ \A best \in {ScoreOfPanel(pan, md, fout[1], week)} :
                    \A i \in UsableHeaders(pan, md) :
                    \A score \in {ScoreOfPanel(pan, md, pan[i][1], week)} :
                        /\ score <= best
                        /\ score = best => MinOf(HeadersOfPanel(pan, md, fout[1])) <= i

\* C4 (witness): two panels tie at a score above 0 and the one selected, first in the
\* document, is not the one of lowest index.
C4_Witness ==
    /\ pc = "selected"
    /\ fout # None
    /\ \E pan \in {HeaderPanels(fin.jours)} : \E md \in {HeaderDates(fin.jours)} : \E week \in {WeekOf(fin.target_monday)} :
           /\ ScoreOfPanel(pan, md, fout[1], week) > 0
           /\ \E i \in UsableHeaders(pan, md) :
                  /\ pan[i][1] < fout[1]
                  /\ ScoreOfPanel(pan, md, pan[i][1], week) = ScoreOfPanel(pan, md, fout[1], week)

(***************************************************************************)
(* Day assignment on its own: the headers of a panel, then                 *)
(* nearest_day_label_for_case on a case                                    *)
(***************************************************************************)
Mercredi17 == <<"M", "e", "r", "c", "r", "e", "d", "i", " ", "1", "7", " ", "s", "e", "p", "t", "e", "m", "b", "r", "e">>

Mercredi24 == <<"M", "e", "r", "c", "r", "e", "d", "i", " ", "2", "4", " ", "s", "e", "p", "t", "e", "m", "b", "r", "e">>

HeaderJours == {Jour(Left(3), Lundi15), Jour(Left(23), Mardi16), Jour(Left(43), Mercredi17),
                Jour(Left(103), Lundi22), Jour(HugeLeft, Mercredi24), Jour(<<"l", "e", "f", "t", ":", "1", ".", "2", ".", "3", "%">>, Mardi23),
                Jour(<<"l", "e", "f", "t", ":", "3", ".", "1", "%">>, Mardi16), Jour(<<"l", "e", "f", "t", ":", "3", ".", "3", "%">>, Mercredi17)}

CaseStyles == {NoLeft, Left(3), Left(13), Left(33), Left(123), <<"L", "E", "F", "T", " ", ":", " ", "1", "2", ".", "5", " ", "%">>, <<"m", "a", "r", "g", "i", "n", "-", "l", "e", "f", "t", ":", "-", "7", "%">>, <<"l", "e", "f", "t", ":", "3", ".", "2", "%">>}

InitAssign ==
    /\ pc = "headers"
    /\ fin \in [jours : SeqsUpTo(HeaderJours, MaxHeaders), panel : {0, 1}, case : {Case(<<>>, l, <<<<"A", "l", "g", "o">>>>) : l \in CaseStyles}]
    /\ fout = None
    /\ args = None /\ monday0 = None /\ k = 0 /\ html = None /\ weeks_payload = <<>>
    /\ console = <<>> /\ json_out = None /\ ics_out = None

\* day_headers = day_headers_for_panel(soup, panel): it returns the headers, or raises
CollectHeaders ==
    /\ pc = "headers"
    /\ \E day_headers \in {day_headers_for_panel(fin.jours, fin.panel)} :
           IF day_headers.raises THEN fout' = None /\ pc' = "raised"
           ELSE fout' = [day_headers |-> day_headers.value] /\ pc' = "assign"
    /\ UNCHANGED <<args, monday0, k, html, weeks_payload, console, json_out, ics_out, fin>>

\* nearest_day_label_for_case(c, day_headers)
AssignDay ==
    /\ pc = "assign"
    /\ fout' = [day_headers |-> fout.day_headers, label |-> nearest_day_label_for_case(fin.case, fout.day_headers)]
    /\ pc' = "assigned"
    /\ UNCHANGED <<args, monday0, k, html, weeks_payload, console, json_out, ics_out, fin>>

NextAssign == CollectHeaders \/ AssignDay

SpecAssign == InitAssign /\ [][NextAssign]_vars

\* abs(case offset % 100.0 - offset % 100.0 of the i-th header) for every header i, in
\* float arithmetic, an absent offset counting as 0.0
OffsetDeltas(case, day_headers) ==
    LET Deltas(left_mod) == [i \in 1..Len(day_headers) |-> FloatSubAbs(left_mod, LeftMod(day_headers[i].left))]
        OrZero(left) == IF left = None THEN [neg |-> FALSE, m |-> <<>>, e |-> 0] ELSE left[1]
    IN  Deltas(LeftMod(OrZero(parse_pct_left(case.style))))

\* C5: for a non-empty list of headers, as day_headers_for_panel returns it (it raises
\* ValueError on an infinite left percentage), the label returned is the label of a header at
\* minimal distance (modulo 100) from the case, and of the first such header of the
\* list; so a case at the offset of a header gets that header.  Offsets are floats and
\* the distance is their float difference.
C5_AssignsFirstNearestHeader ==
    (pc = "assigned" /\ fout.day_headers # <<>>) =>
        /\ fout.label # None
        /\ \A delta \in {OffsetDeltas(fin.case, fout.day_headers)} :
           \E i \in 1..Len(fout.day_headers) :
               /\ fout.label[1] = fout.day_headers[i].label
               /\ \A j \in 1..Len(fout.day_headers) : ~ FloatLt(delta[j], delta[i])
               /\ \A j \in 1..(i - 1) : FloatLt(delta[i], delta[j])

\* C5 (witness): the case is midway between two headers of different labels and got
\* the label of the first.
C5_Witness ==
    /\ pc = "assigned"
    /\ \E delta \in {OffsetDeltas(fin.case, fout.day_headers)} :
       \E i, j \in 1..Len(fout.day_headers) :
           /\ i < j
           /\ fout.day_headers[i].label # fout.day_headers[j].label
           /\ delta[i] = delta[j]
           /\ delta[i].m # <<>>
           /\ \A n \in 1..Len(fout.day_headers) : ~ FloatLt(delta[n], delta[i])
           /\ fout.label = Some(fout.day_headers[i].label)

(***************************************************************************)
(* One week on its own: the loop body of main on the Jour and Case blocks  *)
(* of a page, then the listing and the ICS of that week                    *)
(***************************************************************************)
WeekJours == {<<Jour(Left(103), Lundi15), Jour(Left(123), Mardi16)>>,
              <<Jour(Left(123), Mardi16), Jour(Left(103), Lundi15), Jour(Left(3), Lundi22)>>,
              <<Jour(Left(103), Semaine)>>,
              <<Jour(Left(103), Lundi15), Jour(HugeLeft, Mardi16)>>}

WeekCases == {CaseAlgo, CaseTP, CaseMaths, CaseBio, CaseInfo, CasePdc}

InitWeek ==
    /\ pc = "week"
    /\ fin \in [jours : WeekJours, panel : {1}, cases : SeqsUpTo(WeekCases, MaxCases)]
    /\ fout = None
    /\ monday0 = Monday15
    /\ weeks_payload = <<>>
    /\ console = <<>>
    /\ ics_out = None
    /\ args = None /\ k = 0 /\ html = None /\ json_out = None

\* day_headers, cases and week_map of the loop body
BuildWeek ==
    LET Build(day_headers, cases) ==
            IF day_headers.raises \/ cases.raises
            THEN weeks_payload' = weeks_payload /\ console' = console /\ pc' = "week_raised"
            ELSE /\ weeks_payload' = <<[monday |-> monday0, week_map |-> build_week_map(cases.value, day_headers.value)]>>
                 /\ console' = Append(console, [kind |-> "panel", panel |-> fin.panel,
                                                headers |-> Len(day_headers.value), cases |-> Len(cases.value)])
                 /\ pc' = "week_built"
    IN  /\ pc = "week"
        /\ Build(day_headers_for_panel(fin.jours, fin.panel), extract_cases_for_panel(fin.cases, fin.panel))
        /\ UNCHANGED <<args, monday0, k, html, json_out, ics_out, fin, fout>>

\* print_week(week_map)
PrintWeek ==
    /\ pc = "week_built"
    /\ console' = console \o print_week(weeks_payload[1].week_map)
    /\ pc' = "week_printed"
    /\ UNCHANGED <<args, monday0, k, html, weeks_payload, json_out, ics_out, fin, fout>>

\* export_ics(weeks_payload, args.ics)
ExportWeek ==
    /\ pc = "week_printed"
    /\ ics_out' = Some(export_ics(weeks_payload))
    /\ pc' = "week_exported"
    /\ UNCHANGED <<args, monday0, k, html, weeks_payload, console, json_out, fin, fout>>

NextWeek == BuildWeek \/ PrintWeek \/ ExportWeek

SpecWeek == InitWeek /\ [][NextWeek]_vars

\* the number of entries of seq that satisfy Test
CountOf(seq, Test(_)) == Cardinality({i \in 1..Len(seq) : Test(seq[i])})

\* the lines of the listing from the first day line to the line before the second
FirstDaySection(lines) ==
    SubSeq(lines, 1, IF \E i \in 2..Len(lines) : lines[i].kind = "day"
                     THEN MinOf({i \in 2..Len(lines) : lines[i].kind = "day"}) - 1
                     ELSE Len(lines))

\* the lines printed after the line of the selected panel: the listing of print_week
ListingOf(lines) == SubSeq(lines, MinOf({i \in 1..Len(lines) : lines[i].kind = "panel"}) + 1, Len(lines))

\* the bullet line print_week prints for a "pas de cours" record: the placeholder for
\* the time and no other part
PlaceholderLine == [kind |-> "event", time |-> <<"(", "h", "o", "r", "a", "i", "r", "e", " ", "n", "/", "d", ")">>, room |-> <<>>, site |-> <<>>, teacher |-> <<>>]

\* the week map without the "pas de cours" records
WithoutPasDeCours(week_map) ==
    [d \in 1..Len(week_map) |-> [label |-> week_map[d].label,
                                 events |-> SelectSeq(week_map[d].events, LAMBDA ev : ev # PasDeCoursRecord)]]

\* C6: in every week that is built (the headers and cases of the panel are collected
\* unless a left percentage is infinite, on which int() raises ValueError) the cases of
\* the panel whose text contains "pas de cours" are recorded, whatever their left,
\* under the first day header of the panel, with empty start and end and the fixed raw
\* message, and under no other day; the listing, which main prints after the line of
\* the selected panel, starts with the line of that day and shows them in its section;
\* the ICS is the one of the week without them.
C6_PasDeCoursUnderFirstHeader ==
    pc \in {"week_built", "week_printed", "week_exported"} =>
        \A hs \in {day_headers_for_panel(fin.jours, fin.panel).value} :
        \A n \in {CountOf(extract_cases_for_panel(fin.cases, fin.panel).value, IsPasDeCours)} :
        \A wm \in {weeks_payload[1].week_map} :
            /\ PasDeCoursRecord.start = <<>> /\ PasDeCoursRecord.end = <<>>
            /\ wm[1].label = hs[1].label
            /\ CountOf(wm[1].events, LAMBDA ev : ev = PasDeCoursRecord) = n
            /\ \A d \in 2..Len(wm) : \A i \in 1..Len(wm[d].events) :
                   wm[d].events[i].raw # PasDeCoursRecord.raw
            /\ pc \in {"week_printed", "week_exported"} =>
                   \A listing \in {ListingOf(console)} :
                       /\ listing[1] = [kind |-> "day", text |-> hs[1].label]
                       /\ CountOf(FirstDaySection(listing), LAMBDA l : l = PlaceholderLine) >= n
            /\ pc = "week_exported" => ics_out = Some(export_ics(<<[monday |-> monday0, week_map |-> WithoutPasDeCours(wm)]>>))

\* C6 (witness): a "pas de cours" case that is nearer to the second header than to
\* the first was recorded, listed, and left out of an ICS that holds another event.
C6_Witness ==
    /\ pc = "week_exported"
    /\ \E i \in 1..Len(fin.cases) :
           /\ IsPasDeCours(fin.cases[i])
           /\ LabelForCaseByPosition(fin.cases[i], day_headers_for_panel(fin.jours, fin.panel).value)
                  # day_headers_for_panel(fin.jours, fin.panel).value[1].label
    /\ \E i \in 1..Len(weeks_payload[1].week_map[1].events) : weeks_payload[1].week_map[1].events[i] = PasDeCoursRecord
    /\ console[1].kind = "panel"
    /\ \E i \in 2..Len(console) : console[i] = PlaceholderLine
    /\ ics_out[1] # <<>>

\* the sort keys of a list of events
SortKeys(events) == [i \in 1..Len(events) |-> _time_to_minutes(Get(events[i], "start"))]

\* C10: in the week map of every week that is built every day's list is in ascending order of the start time in
\* minutes, the events without parseable start come after all the others, and the
\* events of equal key are in the order of their extraction.
C10_DayListsSortedStable ==
    pc \in {"week_built", "week_printed", "week_exported"} =>
        \A hs \in {day_headers_for_panel(fin.jours, fin.panel).value} :
        \A cs \in {extract_cases_for_panel(fin.cases, fin.panel).value} :
        \A d \in 1..Len(weeks_payload[1].week_map) :
        \A events \in {weeks_payload[1].week_map[d].events} :
        \A extracted \in {AppendedUnder(weeks_payload[1].week_map[d].label, cs, hs)} :
        \A key \in {SortKeys(events)} :
            /\ Len(events) = Len(extracted)
            /\ \A i, j \in 1..Len(events) : i < j => key[i] <= key[j]
            /\ \A i, j \in 1..Len(events) : (key[i] = NoTime /\ key[j] # NoTime) => j < i
            /\ \A i \in 1..Len(events) :
                   SelectSeq(events, LAMBDA ev : _time_to_minutes(Get(ev, "start")) = key[i])
                       = SelectSeq(extracted, LAMBDA ev : _time_to_minutes(Get(ev, "start")) = key[i])

\* C10 (witness): a day whose extraction order was changed by the sort, with two
\* different events of equal parseable key and an event without parseable start.
C10_Witness ==
    /\ pc = "week_built"
    /\ \E d \in 1..Len(weeks_payload[1].week_map) :
       \E events \in {weeks_payload[1].week_map[d].events} :
       \E key \in {SortKeys(events)} :
           /\ events # AppendedUnder(weeks_payload[1].week_map[d].label,
                                     extract_cases_for_panel(fin.cases, fin.panel).value,
                                     day_headers_for_panel(fin.jours, fin.panel).value)
           /\ \E i, j \in 1..Len(events) : i < j /\ key[i] = key[j] /\ key[i] # NoTime /\ events[i] # events[j]
           /\ \E i \in 1..Len(events) : key[i] = NoTime

(***************************************************************************)
(* The week map of a page with sentinel blocks, blocks of other panels,    *)
(* blocks without left:, headers of equal label and a header without text  *)
(***************************************************************************)
CaseSansLeft == Case(<<>>, NoLeft, <<<<"1", "3", ":", "0", "0", " ", "-", " ", "1", "4", ":", "0", "0">>, <<"D", "r", "o", "i", "t">>>>)

CaseSport == Case(<<>>, Left(140), <<<<"1", "6", ":", "0", "0", " ", "-", " ", "1", "7", ":", "0", "0">>, <<"S", "p", "o", "r", "t">>>>)

ConserveJours == {<<Jour(Left(103), Lundi15), Jour(Left(123), Mardi16)>>,
                  <<Jour(Left(123), Lundi15), Jour(Left(103), Lundi15), Jour(Left(3), Lundi22)>>,
                  <<Jour(Left(143), <<>>), Jour(Left(103), Mardi16)>>}

\* a block outside the grid, and a sentinel block that is
CaseHuge == Case(<<>>, HugeLeft, <<<<"1", "7", ":", "0", "0", " ", "-", " ", "1", "8", ":", "0", "0">>, <<"Y", "o", "g", "a">>>>)

CaseApresHuge == Case(<<"a", "p", "r", "e", "s">>, HugeLeft, <<<<"x">>>>)

ConserveCases == {CaseAlgo, CasePdc, CaseSport, CaseAvant, CaseElsewhere, CaseSansLeft, CaseHuge, CaseApresHuge}

InitConserve ==
    /\ pc = "week"
    /\ fin \in [jours : ConserveJours, panel : {1}, cases : SeqsUpTo(ConserveCases, MaxCases)]
    /\ fout = None
    /\ monday0 = Monday15
    /\ weeks_payload = <<>>
    /\ console = <<>>
    /\ ics_out = None
    /\ args = None /\ k = 0 /\ html = None /\ json_out = None

NextConserve == BuildWeek

SpecConserve == InitConserve /\ [][NextConserve]_vars

\* the case block is no sentinel and lies in the panel
InPanel(case, panel) ==
    /\ lower(case.id) \notin {<<"a", "v", "a", "n", "t">>, <<"a", "p", "r", "e", "s">>}
    /\ parse_pct_left(case.style) # None
    /\ PanelOf(parse_pct_left(case.style)[1]) = Returns(panel)

\* the events of all the days of a week map, day after day
RECURSIVE AllEvents(_)
AllEvents(week_map) == IF week_map = <<>> THEN <<>> ELSE Head(week_map).events \o AllEvents(Tail(week_map))

\* C15: when the panel has a day header and the week is built (no Case block of the
\* page that is not avant or apres has an infinite left percentage, on which int()
\* raises ValueError), the days of the week map hold together as
\* many events as there are non-sentinel case blocks in the panel, each record as many
\* times as there are such blocks giving it, and every key of the week map is the
\* label of a day header of the panel, no key twice.
C15_CasesConserved ==
    pc = "week_built" =>
        \A hs \in {day_headers_for_panel(fin.jours, fin.panel).value} :
        \A wm \in {weeks_payload[1].week_map} :
        \A all \in {AllEvents(weeks_payload[1].week_map)} :
        \A mine \in {SelectSeq(fin.cases, LAMBDA c : InPanel(c, fin.panel))} :
            hs # <<>> =>
                /\ mine = extract_cases_for_panel(fin.cases, fin.panel).value
                /\ Len(all) = Len(mine)
                /\ \A i \in 1..Len(mine) : \A e \in {EntryForCase(mine[i])} :
                       CountOf(all, LAMBDA ev : ev = e) = CountOf(mine, LAMBDA c : EntryForCase(c) = e)
                /\ \A d \in 1..Len(wm) : \E i \in 1..Len(hs) : wm[d].label = hs[i].label
                /\ \A d, e \in 1..Len(wm) : wm[d].label = wm[e].label => d = e

\* C15 (witness): a page with a block that is left out (sentinel, other panel or no
\* left:), a "pas de cours" block and a block placed by its position, whose week map
\* has events under two days.
C15_Witness ==
    /\ pc = "week_built"
    /\ \E i \in 1..Len(fin.cases) : ~ InPanel(fin.cases[i], fin.panel)
    /\ \E i \in 1..Len(fin.cases) : InPanel(fin.cases[i], fin.panel) /\ IsPasDeCours(fin.cases[i])
    /\ Len(weeks_payload[1].week_map) >= 2
    /\ weeks_payload[1].week_map[1].events # <<>>
    /\ weeks_payload[1].week_map[2].events # <<>>

(***************************************************************************)
(* The three serializers on the same week files: export_ics on the payload *)
(* of a run, scripts/build_site.py on the directory of week files, and the *)
(* workflow script on the last week file                                   *)
(***************************************************************************)
Le15Septembre == <<"1", "5", " ", "s", "e", "p", "t", "e", "m", "b", "r", "e">>

Jeudi1Janvier == <<"J", "e", "u", "d", "i", " ", "1", " ", "j", "a", "n", "v", "i", "e", "r">>

\* the Monday of a week that ends in the next year
Monday29Dec == [y |-> 2025, m |-> 12, d |-> 29]

IcsLabels == {Lundi15, Le15Septembre, Semaine, Jeudi1Janvier}

IcsEventChoices == {case_payload(CaseAlgo), case_payload(CaseBio), case_payload(CaseNuit),
                    case_payload(CaseInfo), case_payload(CaseVirgule), case_payload(CaseSansTitre),
                    PasDeCoursRecord}

\* one week file per Monday of mondays, each holding the same one-day schedule
WeekFiles(mondays, label, events) ==
    [i \in 1..Len(mondays) |-> [monday |-> mondays[i], week_map |-> <<[label |-> label, events |-> events]>>]]

InitIcs ==
    /\ pc = "ics"
    /\ \E mondays \in {<<Monday15>>, <<Monday08, Monday15>>, <<Monday29Dec>>} : \E label \in IcsLabels :
       \E events \in SeqsUpTo(IcsEventChoices, MaxEvents) :
           fin = WeekFiles(mondays, label, events)
    /\ fout = None
    /\ ics_out = None
    /\ monday0 = fin[1].monday
    /\ weeks_payload = fin
    /\ console = <<>>
    /\ args = None /\ k = 0 /\ html = None /\ json_out = None

\* export_ics(weeks_payload, args.ics) at the end of main
ExportIcs ==
    /\ pc = "ics"
    /\ ics_out' = Some(export_ics(weeks_payload))
    /\ pc' = "ics_exported"
    /\ UNCHANGED <<args, monday0, k, html, weeks_payload, console, json_out, fin, fout>>

\* main of scripts/build_site.py on the week files
BuildSite ==
    /\ pc = "ics_exported"
    /\ fout' = [site |-> build_site_main(fin)]
    /\ pc' = "site_built"
    /\ UNCHANGED <<args, monday0, k, html, weeks_payload, console, json_out, ics_out, fin>>

\* main of .github/workflows/scripts/build_site.py on the last week file; a run that
\* reaches its end prints the line "Built ..."
BuildWeekSite ==
    /\ pc = "site_built"
    /\ \E week \in {week_site_main(fin[Len(fin)].monday, fin[Len(fin)].week_map)} :
           /\ fout' = [site |-> fout.site, week |-> week]
           /\ console' = IF week.ok THEN Append(console, [kind |-> "built"]) ELSE console
    /\ pc' = "week_site_built"
    /\ UNCHANGED <<args, monday0, k, html, weeks_payload, json_out, ics_out, fin>>

NextIcs == ExportIcs \/ BuildSite \/ BuildWeekSite

SpecIcs == InitIcs /\ [][NextIcs]_vars

\* s is a time of day: one or two digits, ":", two digits, hour at most 23, minute at most 59
IsTimeOfDay(s) ==
    /\ Len(s) \in {4, 5}
    /\ s[Len(s) - 2] = ":"
    /\ \A i \in 1..Len(s) : i # Len(s) - 2 => s[i] \in Digits
    /\ IntOf(SubSeq(s, 1, Len(s) - 3)) <= 23
    /\ IntOf(SubSeq(s, Len(s) - 1, Len(s))) <= 59

\* the events of the week files, file after file
RECURSIVE EventsOfFiles(_)
EventsOfFiles(files) ==
    IF files = <<>> THEN <<>> ELSE Head(files).week_map[1].events \o EventsOfFiles(Tail(files))

Eligible(ev) == Get(ev, "start") # <<>> /\ Get(ev, "end") # <<>>

WellTimed(ev) == Eligible(ev) /\ IsTimeOfDay(ev.start) /\ IsTimeOfDay(ev.end)

\* C7: for week files whose eligible events (start and end not empty) all have valid
\* times, each serializer completes and writes exactly one VEVENT, with a UID, per
\* eligible event; the other events give none and no eligible event is dropped.
C7_OneVeventPerEligibleEvent ==
    \A evs \in {EventsOfFiles(fin)} :
        (\A i \in 1..Len(evs) : Eligible(evs[i]) => WellTimed(evs[i])) =>
            /\ pc \in {"ics_exported", "site_built", "week_site_built"} =>
                   /\ Len(ics_out[1]) = CountOf(evs, Eligible)
                   /\ \A i \in 1..Len(ics_out[1]) : ics_out[1][i].uid.digest # <<>>
            /\ pc \in {"site_built", "week_site_built"} =>
                   /\ fout.site.ok
                   /\ Len(fout.site.events) = CountOf(evs, Eligible)
                   /\ \A i \in 1..Len(fout.site.events) : fout.site.events[i].uid.digest # <<>>

\* two VEVENTs that have the same start, end, title, location and description
SameContent(a, b) ==
    /\ a.dtstart = b.dtstart /\ a.dtend = b.dtend /\ a.summary = b.summary
    /\ a.location = b.location /\ a.description = b.description

\* C8: in the output of each serializer, two VEVENTs with the same resolved start and
\* end, title, location and description have the same UID, whatever week entry, input
\* file or position they come from.
C8_UidFunctionOfContent ==
    /\ pc \in {"ics_exported", "site_built", "week_site_built"} =>
           \A i, j \in 1..Len(ics_out[1]) :
               SameContent(ics_out[1][i], ics_out[1][j]) => ics_out[1][i].uid = ics_out[1][j].uid
    /\ pc \in {"site_built", "week_site_built"} =>
           \A i, j \in 1..Len(fout.site.events) :
               SameContent(fout.site.events[i], fout.site.events[j]) => fout.site.events[i].uid = fout.site.events[j].uid
    /\ pc = "week_site_built" =>
           \A i, j \in 1..Len(fout.week.events) :
               SameContent(fout.week.events[i], fout.week.events[j]) => fout.week.events[i].uid = fout.week.events[j].uid

\* C9: under a day label every serializer resolves, an event whose start or end matched
\* the loose pattern but is no valid time gives no VEVENT and stops no serializer:
\* each one completes and writes the VEVENTs of the events with valid times only.
C9_MalformedTimeIsTimeAbsent ==
    \A evs \in {EventsOfFiles(fin)} :
        fin[1].week_map[1].label = Lundi15 =>
            /\ pc \in {"ics_exported", "site_built", "week_site_built"} =>
                   Len(ics_out[1]) = CountOf(evs, WellTimed)
            /\ pc \in {"site_built", "week_site_built"} =>
                   fout.site.ok /\ Len(fout.site.events) = CountOf(evs, WellTimed)

\* v is in escaped form: no raw newline, every ";" and "," behind a backslash, and
\* every backslash the first character of one of the pairs \\\\, \\;, \\, and \\n
RECURSIVE IsEscaped(_)
IsEscaped(v) ==
    IF v = <<>> THEN TRUE
    ELSE IF Head(v) = "\\" THEN Len(v) >= 2 /\ v[2] \in {"\\", ";", ",", "n"} /\ IsEscaped(SubSeq(v, 3, Len(v)))
    ELSE Head(v) \notin {";", ",", "\n"} /\ IsEscaped(Tail(v))

\* the SUMMARY, LOCATION and DESCRIPTION values of a list of VEVENTs are in escaped form
AllEscaped(events) ==
    \A i \in 1..Len(events) :
        IsEscaped(events[i].summary) /\ IsEscaped(events[i].location) /\ IsEscaped(events[i].description)

\* C13 (as claimed): in the VEVENTs of each of the three serializers the SUMMARY,
\* LOCATION and DESCRIPTION values are in escaped form: no raw newline and no ";" or
\* "," without a backslash before it.
C13_TextValuesEscaped ==
    /\ pc \in {"ics_exported", "site_built", "week_site_built"} => AllEscaped(ics_out[1])
    /\ pc \in {"site_built", "week_site_built"} => AllEscaped(fout.site.events)
    /\ pc = "week_site_built" => AllEscaped(fout.week.events)

\* the date of a VEVENT: the eight digits before the T of DTSTART
DateOf(vevent) == SubSeq(vevent.dtstart, 1, 8)

\* the position 1..7 of the weekday name the label begins with, 0 when it begins with none
WeekdayOfLabel(label) ==
    LET Named(low) == IF \E i \in 1..7 : StartsWith(low, DOW_FR[i])
                      THEN CHOOSE i \in 1..7 : StartsWith(low, DOW_FR[i]) ELSE 0
    IN  Named(lower(strip(label)))

\* the VEVENTs written by the three serializers so far
EmittedEvents ==
    (IF pc \in {"ics_exported", "site_built", "week_site_built"} THEN ics_out[1] ELSE <<>>)
    \o (IF pc \in {"site_built", "week_site_built"} THEN fout.site.events ELSE <<>>)
    \o (IF pc = "week_site_built" THEN fout.week.events ELSE <<>>)

\* C14 (as claimed): for one week file whose day label begins with a weekday name,
\* every VEVENT is dated week_monday + weekday_index, whatever day number and month
\* the label holds.
C14_WeekdayLabelDatedFromMonday ==
    \A idx \in {WeekdayOfLabel(fin[1].week_map[1].label)} :
        (Len(fin) = 1 /\ idx # 0) =>
            \A i \in 1..Len(EmittedEvents) :
                DateOf(EmittedEvents[i]) = Ymd(AddDays(fin[1].monday, idx - 1))

\* the label begins with the weekday name idx and holds the day and month of that
\* day of the week of monday
LabelOfWeek(label, monday, idx) ==
    /\ idx # 0
    /\ parse_day_header_date(label) = Some(<<AddDays(monday, idx - 1).m, AddDays(monday, idx - 1).d>>)

\* C16 (as claimed): for one week file whose day label names a day of that week,
\* every VEVENT is dated in week_monday .. week_monday + 6 days, also when the week
\* ends in the next year.
C16_VeventDatedInsideWeek ==
    (Len(fin) = 1 /\ LabelOfWeek(fin[1].week_map[1].label, fin[1].monday, WeekdayOfLabel(fin[1].week_map[1].label))) =>
        \A i \in 1..Len(EmittedEvents) :
            \E n \in 0..6 : DateOf(EmittedEvents[i]) = Ymd(AddDays(fin[1].monday, n))

(***************************************************************************)
(* case_payload on its own, on a block of four lines: time range, title,   *)
(* room with site, teacher                                                 *)
(***************************************************************************)
BlockTimes == {<<<<"0", "9", ":", "0", "0">>, <<"1", "0", ":", "3", "0">>>>, <<<<"8", ":", "1", "5">>, <<"9", ":", "0", "0">>>>, <<<<"1", "4", ":", "0", "0">>, <<"1", "5", ":", "3", "0">>>>, <<<<"1", "6", ":", "4", "5">>, <<"1", "8", ":", "1", "5">>>>}

BlockTitles == {<<"A", "l", "g", "o", "r", "i", "t", "h", "m", "i", "q", "u", "e">>, <<"T", "P", " ", "R", "e", "s", "e", "a", "u", "x">>, <<"A", "n", "g", "l", "a", "i", "s", " ", "B", "2">>}

BlockRooms == {<<<<"B", "2", "0", "4">>, <<"S", "i", "t", "e", " ", "N", "o", "r", "d">>>>, <<<<"A", "m", "p", "h", "i", " ", "A">>, <<"C", "a", "m", "p", "u", "s", " ", "2">>>>, <<<<"C", "-", "1", "2">>, <<"S", "u", "d">>>>}

BlockTeachers == {<<"J", ".", " ", "M", "a", "r", "t", "i", "n">>, <<"A", "n", "n", " ", "L", "e", "e">>, <<"J", "e", "a", "n", "-", "P", "a", "u", "l", " ", "D", "u", "p", "o", "n", "t">>}

\* the text nodes of the block
BlockLines(b) == <<b.start \o <<" ", "-", " ">> \o b.end, b.title,
                   <<"S", "a", "l", "l", "e", ":", " ">> \o b.room \o <<" ", "(">> \o b.site \o <<")">>, b.teacher>>

InitCase ==
    /\ pc = "case"
    /\ \E t \in BlockTimes : \E title \in BlockTitles : \E r \in BlockRooms : \E teacher \in BlockTeachers :
           fin = [start |-> t[1], end |-> t[2], title |-> title, room |-> r[1], site |-> r[2], teacher |-> teacher]
    /\ fout = None
    /\ args = None /\ monday0 = None /\ k = 0 /\ html = None /\ weeks_payload = <<>>
    /\ console = <<>> /\ json_out = None /\ ics_out = None

\* case_payload(c)
ParseCase ==
    /\ pc = "case"
    /\ fout' = case_payload(Case(<<>>, Left(3), BlockLines(fin)))
    /\ pc' = "case_parsed"
    /\ UNCHANGED <<args, monday0, k, html, weeks_payload, console, json_out, ics_out, fin>>

NextCase == ParseCase

SpecCase == InitCase /\ [][NextCase]_vars

\* C12 (as claimed): for a block whose lines are a time range, a title, "Salle: NAME
\* (SITE)" and a teacher name, the six fields of the result are the parts of those
\* lines; so the block 09:00 - 10:30 / Algorithmique / Salle: B204 (Site Nord) /
\* J. Martin gives the teacher "J. Martin".
C12_BlockFieldsAllFilled ==
    pc = "case_parsed" =>
        /\ fout.start = fin.start /\ fout.end = fin.end
        /\ fout.title = fin.title
        /\ fout.room = fin.room /\ fout.site = fin.site
        /\ fout.teacher = fin.teacher
====
